---- MODULE Spec2Model ----
(***************************************************************************)
(* Entity extraction, merge and classification of the ADOR document        *)
(* pipeline (src/app).  Strings are sequences of one-character strings;    *)
(* an EntityMap is a function from the entity types it holds to the        *)
(* sequence of values of each type.                                        *)
(***************************************************************************)
EXTENDS Naturals, Integers, Sequences, FiniteSets, TLC

VARIABLES sources, entity_dicts, merged, engine, isin, valid, validated,
          file_type, content, ner_spans, client, reply, llm_outcome, recognizer, stage, merged_entities,
          result, scanned_text, strategy, cls_text, cls_entities, classification,
          classifier_state, cls_scores,
          instance_categories, call_log,
          callee, call_args, call_result, call_stage,
          entry_point, size_mb, pc, invoked, status, extraction_method,
          qa_sessions, solo_sessions, qa_request, qa_response, solo_response, qa_payload,
          qa_dropped,
          conv_qa, conv_asked, conv_copy, conv_call, conv_results

mergeVars == <<sources, entity_dicts, merged, engine>>

isinVars == <<isin, valid, validated>>

extractVars ==
    <<file_type, content, ner_spans, client, reply, llm_outcome, recognizer, stage, merged_entities,
      result, scanned_text, strategy>>

classifyVars == <<cls_text, cls_entities, classification, classifier_state, cls_scores>>

instanceVars == <<instance_categories, call_log>>

callVars == <<callee, call_args, call_result, call_stage>>

entryVars == <<entry_point, size_mb, pc, invoked, status, extraction_method>>

qaVars ==
    <<qa_sessions, solo_sessions, qa_request, qa_response, solo_response, qa_payload,
      qa_dropped>>

convVars == <<conv_qa, conv_asked, conv_copy, conv_call, conv_results>>

vars ==
    <<mergeVars, isinVars, extractVars, classifyVars, instanceVars, callVars, entryVars, qaVars,
      convVars>>

\* what the calls of one component leave alone
exceptMerge == <<isinVars, extractVars, classifyVars, instanceVars, callVars, entryVars, qaVars, convVars>>

exceptIsin == <<mergeVars, extractVars, classifyVars, instanceVars, callVars, entryVars, qaVars, convVars>>

exceptExtract == <<mergeVars, isinVars, classifyVars, instanceVars, callVars, entryVars, qaVars, convVars>>

exceptClassify == <<mergeVars, isinVars, extractVars, instanceVars, callVars, entryVars, qaVars, convVars>>

exceptInstance == <<mergeVars, isinVars, extractVars, classifyVars, callVars, entryVars, qaVars, convVars>>

exceptCall == <<mergeVars, isinVars, extractVars, classifyVars, instanceVars, entryVars, qaVars, convVars>>

exceptEntryAndExtract == <<mergeVars, isinVars, classifyVars, instanceVars, callVars, qaVars, convVars>>

exceptEntry == <<mergeVars, isinVars, extractVars, classifyVars, instanceVars, callVars, qaVars, convVars>>

exceptQa == <<mergeVars, isinVars, extractVars, classifyVars, instanceVars, callVars, entryVars, convVars>>

exceptConv ==
    <<mergeVars, isinVars, extractVars, classifyVars, instanceVars, callVars, entryVars, qaVars>>

None == "None"

\* ------------------------------------------------------------------------
\* Characters and the str methods the code calls
\* ------------------------------------------------------------------------

UpperLetters == <<"A","B","C","D","E","F","G","H","I","J","K","L","M","N","O","P","Q","R","S","T","U","V","W","X","Y","Z">>

LowerLetters == <<"a","b","c","d","e","f","g","h","i","j","k","l","m","n","o","p","q","r","s","t","u","v","w","x","y","z">>

Digits == {"0","1","2","3","4","5","6","7","8","9"}

Whitespace == {" ", "\t", "\n", "\r", "\f"}

Range(f) == {f[i] : i \in DOMAIN f}

UpperSet == Range(UpperLetters)

LowerSet == Range(LowerLetters)

LowerOf == [c \in UpperSet |-> LowerLetters[CHOOSE i \in DOMAIN UpperLetters : UpperLetters[i] = c]]

UpperOf == [c \in LowerSet |-> UpperLetters[CHOOSE i \in DOMAIN LowerLetters : LowerLetters[i] = c]]

LowerChar(c) == IF c \in UpperSet THEN LowerOf[c] ELSE c

UpperChar(c) == IF c \in LowerSet THEN UpperOf[c] ELSE c

IsAlphaChar(c) == c \in UpperSet \/ c \in LowerSet

IsDigitChar(c) == c \in Digits

\* str.lower()
Lower(s) == [i \in DOMAIN s |-> LowerChar(s[i])]

\* str.upper()
Upper(s) == [i \in DOMAIN s |-> UpperChar(s[i])]

\* str.isupper(): at least one cased character and no lower-case one
IsUpper(s) ==
    /\ \E i \in DOMAIN s : s[i] \in UpperSet
    /\ \A i \in DOMAIN s : s[i] \notin LowerSet

\* str.isalpha(), str.isalnum(), str.isdigit(): false on the empty string
IsAlpha(s) == s # <<>> /\ \A i \in DOMAIN s : IsAlphaChar(s[i])

IsAlnum(s) == s # <<>> /\ \A i \in DOMAIN s : IsAlphaChar(s[i]) \/ IsDigitChar(s[i])

IsDigit(s) == s # <<>> /\ \A i \in DOMAIN s : IsDigitChar(s[i])

\* str.title(): a letter that follows a letter is lower-cased, any other
\* letter is upper-cased, the other characters are kept
Title(s) ==
    [i \in DOMAIN s |->
        IF ~IsAlphaChar(s[i]) THEN s[i]
        ELSE IF i > 1 /\ IsAlphaChar(s[i - 1]) THEN LowerChar(s[i])
        ELSE UpperChar(s[i])]

Indices(s) == [i \in 1..Len(s) |-> i]

\* the positions of the characters that are not whitespace
Inked(s) == {i \in DOMAIN s : s[i] \notin Whitespace}

Min(S) == CHOOSE x \in S : \A y \in S : x <= y

Max(S) == CHOOSE x \in S : \A y \in S : x >= y

LStrip(s) == IF Inked(s) = {} THEN <<>> ELSE SubSeq(s, Min(Inked(s)), Len(s))

RStrip(s) == IF Inked(s) = {} THEN <<>> ELSE SubSeq(s, 1, Max(Inked(s)))

\* str.strip()
Strip(s) == RStrip(LStrip(s))

\* re.sub(r'\s+', ' ', s): every run of whitespace becomes one space
CollapseWhitespace(s) ==
    LET kept == SelectSeq(Indices(s),
                          LAMBDA i : s[i] \notin Whitespace \/ i = 1 \/ s[i - 1] \notin Whitespace)
    IN [n \in DOMAIN kept |-> IF s[kept[n]] \in Whitespace THEN " " ELSE s[kept[n]]]

\* ------------------------------------------------------------------------
\* Regular expressions (module re): a pattern is a tree; Ends gives the
\* positions at which a match starting at position i may end, in the order in
\* which the backtracking matcher tries them (greedy repetition, alternatives
\* left to right), so that its first element is the end re reports
\* ------------------------------------------------------------------------

WordChars == UpperSet \cup LowerSet \cup Digits \cup {"_"}

AnyOf(cs) == [k |-> "set", cs |-> cs, neg |-> FALSE]

NoneOf(cs) == [k |-> "set", cs |-> cs, neg |-> TRUE]

Ch(c) == AnyOf({c})

Cat(rs) == [k |-> "cat", rs |-> rs]

Alt(rs) == [k |-> "alt", rs |-> rs]

\* r{lo,hi}; hi < 0 stands for no upper limit
Rep(r, lo, hi) == [k |-> "rep", r |-> r, lo |-> lo, hi |-> hi]

Star(r) == Rep(r, 0, -1)

Plus(r) == Rep(r, 1, -1)

Opt(r) == Rep(r, 0, 1)

Lit(str) == Cat([i \in DOMAIN str |-> Ch(str[i])])

WordBoundary == [k |-> "wb"]

Digit == AnyOf(Digits)

Space == AnyOf(Whitespace)

Word == AnyOf(WordChars)

\* re.IGNORECASE makes a character match when either of its cases does
CharMatches(r, c, ic) ==
    LET hit == IF ic THEN LowerChar(c) \in r.cs \/ UpperChar(c) \in r.cs ELSE c \in r.cs
    IN hit # r.neg

IsWordAt(s, i) == i >= 1 /\ i <= Len(s) /\ s[i] \in WordChars

\* \b at position i: exactly one of the characters before and after is a
\* word character
AtWordBoundary(s, i) == IsWordAt(s, i - 1) # IsWordAt(s, i)

RECURSIVE Ends(_, _, _, _)
RECURSIVE EndsFromAll(_, _, _, _)
RECURSIVE CatEnds(_, _, _, _)
RECURSIVE AltEnds(_, _, _, _)
RECURSIVE RepEnds(_, _, _, _, _)
RECURSIVE RepFromAll(_, _, _, _, _)

\* a repeated character class: the longest run first, then each shorter one
\* down to lo characters
SetRepEnds(r, s, i, ic) ==
    LET limit == IF r.hi < 0 \/ i + r.hi > Len(s) + 1 THEN Len(s) + 1 ELSE i + r.hi
        stops == {e \in i..limit : e = limit \/ ~CharMatches(r.r, s[e], ic)}
        longest == Min(stops)
    IN IF longest < i + r.lo THEN <<>>
       ELSE [n \in 1..(longest - (i + r.lo) + 1) |-> longest - n + 1]

Ends(r, s, i, ic) ==
    CASE r.k = "set" -> IF i <= Len(s) /\ CharMatches(r, s[i], ic) THEN <<i + 1>> ELSE <<>>
      [] r.k = "wb" -> IF AtWordBoundary(s, i) THEN <<i>> ELSE <<>>
      [] r.k = "cat" -> CatEnds(r.rs, s, <<i>>, ic)
      [] r.k = "alt" -> AltEnds(r.rs, s, i, ic)
      [] r.k = "rep" -> IF r.r.k = "set" THEN SetRepEnds(r, s, i, ic)
                        ELSE RepEnds(r, s, i, 0, ic)

EndsFromAll(r, s, starts, ic) ==
    IF starts = <<>> THEN <<>>
    ELSE Ends(r, s, Head(starts), ic) \o EndsFromAll(r, s, Tail(starts), ic)

CatEnds(rs, s, starts, ic) ==
    IF rs = <<>> \/ starts = <<>> THEN starts
    ELSE CatEnds(Tail(rs), s, EndsFromAll(Head(rs), s, starts, ic), ic)

AltEnds(rs, s, i, ic) ==
    IF rs = <<>> THEN <<>>
    ELSE Ends(Head(rs), s, i, ic) \o AltEnds(Tail(rs), s, i, ic)

\* n repetitions done, standing at i: one more repetition first (greedy), then
\* stopping here
RepEnds(r, s, i, n, ic) ==
    LET step == IF r.hi < 0 \/ n < r.hi
                THEN SelectSeq(Ends(r.r, s, i, ic), LAMBDA e : e > i)
                ELSE <<>>
    IN RepFromAll(r, s, step, n + 1, ic) \o (IF n >= r.lo THEN <<i>> ELSE <<>>)

RepFromAll(r, s, starts, n, ic) ==
    IF starts = <<>> THEN <<>>
    ELSE RepEnds(r, s, Head(starts), n, ic) \o RepFromAll(r, s, Tail(starts), n, ic)

\* a compiled pattern: its parts in sequence, each a capturing group or not,
\* and the IGNORECASE flag
Part(r) == [r |-> r, cap |-> FALSE]

Group(r) == [r |-> r, cap |-> TRUE]

Pattern(parts, ic) == [parts |-> parts, ic |-> ic]

\* the first way, in the matcher's order, to match all the parts from i: the
\* start followed by the end of each part; <<>> when there is none
RECURSIVE MatchParts(_, _, _, _)
RECURSIVE FirstOf(_, _, _, _, _)

MatchParts(parts, s, i, ic) ==
    IF parts = <<>> THEN <<i>>
    ELSE FirstOf(Ends(Head(parts).r, s, i, ic), Tail(parts), s, i, ic)

FirstOf(cands, rest, s, i, ic) ==
    IF cands = <<>> THEN <<>>
    ELSE LET m == MatchParts(rest, s, Head(cands), ic)
         IN IF m # <<>> THEN <<i>> \o m ELSE FirstOf(Tail(cands), rest, s, i, ic)

\* what findall reports for a match with the boundaries b: the match when the
\* pattern has no group, the group when it has one, the tuple of the groups
\* when it has several
MatchText(p, s, b) ==
    LET caps == SelectSeq([j \in DOMAIN p.parts |-> j], LAMBDA j : p.parts[j].cap)
        text(j) == SubSeq(s, b[j], b[j + 1] - 1)
    IN IF caps = <<>> THEN SubSeq(s, b[1], b[Len(b)] - 1)
       ELSE IF Len(caps) = 1 THEN text(caps[1])
       ELSE [n \in DOMAIN caps |-> text(caps[n])]

\* the positions from i on at which the pattern matches
MatchStarts(p, s, i) == {j \in i..(Len(s) + 1) : MatchParts(p.parts, s, j, p.ic) # <<>>}

\* pattern.findall(s), scanning from position i: the leftmost match, then the
\* scan goes on where it ended
RECURSIVE FindAllFrom(_, _, _)
FindAllFrom(p, s, i) ==
    IF MatchStarts(p, s, i) = {} THEN <<>>
    ELSE LET j == Min(MatchStarts(p, s, i))
             b == MatchParts(p.parts, s, j, p.ic)
         IN <<MatchText(p, s, b)>>
            \o FindAllFrom(p, s, IF b[Len(b)] > j THEN b[Len(b)] ELSE j + 1)

FindAll(p, s) == FindAllFrom(p, s, 1)

\* re.search(pattern, s) finds a match
Search(p, s) == \E i \in 1..(Len(s) + 1) : MatchParts(p.parts, s, i, p.ic) # <<>>

\* sub in s (substring test)
Contains(s, sub) == \E i \in 1..(Len(s) - Len(sub) + 1) : SubSeq(s, i, i + Len(sub) - 1) = sub

\* s.split(sep) for a one-character separator: the pieces between the
\* separators
Split(s, sep) ==
    LET at == SelectSeq(Indices(s), LAMBDA i : s[i] = sep)
        from(n) == IF n = 1 THEN 1 ELSE at[n - 1] + 1
        to(n) == IF n > Len(at) THEN Len(s) ELSE at[n] - 1
    IN [n \in 1..(Len(at) + 1) |-> SubSeq(s, from(n), to(n))]

\* sep.join(strs)
RECURSIVE Join(_, _)
Join(strs, sep) ==
    IF strs = <<>> THEN <<>>
    ELSE IF Len(strs) = 1 THEN Head(strs)
    ELSE Head(strs) \o sep \o Join(Tail(strs), sep)

\* re.split(r'[seps]', s, 1): s cut at its first separator character; one
\* piece when it has none
SplitFirst(s, seps) ==
    IF \E i \in DOMAIN s : s[i] \in seps
    THEN LET i == CHOOSE j \in DOMAIN s : s[j] \in seps /\ \A l \in 1..(j - 1) : s[l] \notin seps
         IN <<SubSeq(s, 1, i - 1), SubSeq(s, i + 1, Len(s))>>
    ELSE <<s>>

\* re.sub(pattern, repl, s) for a pattern that matches no empty string,
\* scanning from position i
RECURSIVE SubFrom(_, _, _, _)
SubFrom(p, repl, s, i) ==
    IF MatchStarts(p, s, i) = {} THEN SubSeq(s, i, Len(s))
    ELSE LET j == Min(MatchStarts(p, s, i))
             b == MatchParts(p.parts, s, j, p.ic)
         IN SubSeq(s, i, j - 1) \o repl \o SubFrom(p, repl, s, b[Len(b)])

Sub(p, repl, s) == SubFrom(p, repl, s, 1)

\* ------------------------------------------------------------------------
\* TextProcessor (utils/text_utils.py)
\* ------------------------------------------------------------------------

TitleMinLen == 3

\* \n\s*\n
BlankLines == Pattern(<<Part(Cat(<<Ch("\n"), Star(Space), Ch("\n")>>))>>, FALSE)

clean_text(text) == Sub(BlankLines, <<"\n", "\n">>, Strip(CollapseWhitespace(text)))

normalize_entity(entity_text) ==
    LET collapsed == CollapseWhitespace(entity_text)
        cased == IF IsUpper(collapsed) /\ Len(collapsed) > TitleMinLen
                 THEN Title(collapsed) ELSE collapsed
    IN Strip(cased)

\* ------------------------------------------------------------------------
\* FinancialPatterns (utils/regex_patterns.py)
\* ------------------------------------------------------------------------

\* [\d,]+\.?\d*
NumberToken == Cat(<<Plus(AnyOf(Digits \cup {","})), Opt(Ch(".")), Star(Digit)>>)

\* \d+\.?\d*\s*%
PercentToken == Cat(<<Plus(Digit), Opt(Ch(".")), Star(Digit), Star(Space), Ch("%")>>)

DateSep == AnyOf({"-", "/"})

MonthNames ==
    <<Lit(<<"J","a","n">>), Lit(<<"F","e","b">>), Lit(<<"M","a","r">>), Lit(<<"A","p","r">>), Lit(<<"M","a","y">>), Lit(<<"J","u","n">>),
      Lit(<<"J","u","l">>), Lit(<<"A","u","g">>), Lit(<<"S","e","p">>), Lit(<<"O","c","t">>), Lit(<<"N","o","v">>), Lit(<<"D","e","c">>)>>

ISIN ==
    Pattern(<<Part(Cat(<<WordBoundary, Rep(AnyOf(UpperSet), 2, 2),
                        Rep(AnyOf(UpperSet \cup Digits), 9, 9), Digit, WordBoundary>>))>>,
            FALSE)

CURRENCY ==
    Pattern(<<Part(Cat(<<Alt(<<Lit(<<"U","S","D">>), Lit(<<"E","U","R">>), Lit(<<"G","B","P">>), Lit(<<"J","P","Y">>),
                              Ch("$"), Ch("€"), Ch("£")>>),
                        Star(Space), NumberToken,
                        Opt(Alt(<<Ch("M"), Ch("K"), Ch("B")>>))>>))>>,
            TRUE)

DATE ==
    Pattern(<<Part(Cat(<<WordBoundary,
                        Alt(<<Cat(<<Rep(Digit, 1, 2), DateSep, Rep(Digit, 1, 2), DateSep,
                                    Rep(Digit, 2, 4)>>),
                              Cat(<<Rep(Digit, 4, 4), DateSep, Rep(Digit, 2, 2), DateSep,
                                    Rep(Digit, 2, 2)>>),
                              Cat(<<Alt(MonthNames), Star(AnyOf(LowerSet)), Plus(Space),
                                    Rep(Digit, 1, 2), Opt(Ch(",")), Plus(Space),
                                    Rep(Digit, 4, 4)>>)>>),
                        WordBoundary>>))>>,
            TRUE)

PERCENTAGE == Pattern(<<Part(Cat(<<WordBoundary, PercentToken>>))>>, FALSE)

\* (?:k1|k2|...):\s*
KeywordPrefix(keywords) == Part(Cat(<<Alt(keywords), Ch(":"), Star(Space)>>))

NOTIONAL_KEYWORDS ==
    Pattern(<<KeywordPrefix(<<Lit(<<"n","o","t","i","o","n","a","l">>), Lit(<<"p","r","i","n","c","i","p","a","l">>), Lit(<<"a","m","o","u","n","t">>)>>),
              Group(NumberToken)>>, TRUE)

COUPON_KEYWORDS ==
    Pattern(<<KeywordPrefix(<<Lit(<<"c","o","u","p","o","n">>),
                              Cat(<<Lit(<<"i","n","t","e","r","e","s","t">>), Plus(Space), Lit(<<"r","a","t","e">>)>>)>>),
              Group(PercentToken)>>, TRUE)

MATURITY_KEYWORDS ==
    Pattern(<<KeywordPrefix(<<Lit(<<"m","a","t","u","r","i","t","y">>), Lit(<<"e","x","p","i","r","y">>), Lit(<<"e","x","p","i","r","a","t","i","o","n">>)>>),
              Group(Plus(NoneOf({"\n"})))>>, TRUE)

COUNTERPARTY_KEYWORDS ==
    Pattern(<<KeywordPrefix(<<Lit(<<"c","o","u","n","t","e","r","p","a","r","t","y">>), Lit(<<"p","a","r","t","y">>), Lit(<<"i","s","s","u","e","r">>)>>),
              Group(Cat(<<AnyOf(UpperSet),
                          Plus(AnyOf(LowerSet \cup UpperSet \cup Whitespace \cup {"&", ",", "."})),
                          Opt(Alt(<<Lit(<<"I","n","c">>), Lit(<<"L","L","C">>), Lit(<<"L","t","d">>), Lit(<<"C","o","r","p">>),
                                    Lit(<<"A","G">>), Lit(<<"S","A">>), Lit(<<"p","l","c">>)>>))>>))>>,
            TRUE)

UNDERLYING_KEYWORDS ==
    Pattern(<<KeywordPrefix(<<Lit(<<"u","n","d","e","r","l","y","i","n","g">>), Lit(<<"r","e","f","e","r","e","n","c","e">>), Lit(<<"a","s","s","e","t">>)>>),
              Group(Plus(NoneOf({"\n"})))>>, TRUE)

BARRIER_KEYWORDS ==
    Pattern(<<KeywordPrefix(<<Lit(<<"b","a","r","r","i","e","r">>), Lit(<<"s","t","r","i","k","e">>), Lit(<<"t","r","i","g","g","e","r">>)>>),
              Group(NumberToken)>>, TRUE)

PatternTypes ==
    {"isin", "currency_amounts", "dates", "percentages", "notional", "coupon", "maturity",
     "counterparty", "underlying", "barrier"}

extract_all(text) ==
    [t \in PatternTypes |->
        CASE t = "isin" -> FindAll(ISIN, text)
          [] t = "currency_amounts" -> FindAll(CURRENCY, text)
          [] t = "dates" -> FindAll(DATE, text)
          [] t = "percentages" -> FindAll(PERCENTAGE, text)
          [] t = "notional" -> FindAll(NOTIONAL_KEYWORDS, text)
          [] t = "coupon" -> FindAll(COUPON_KEYWORDS, text)
          [] t = "maturity" -> FindAll(MATURITY_KEYWORDS, text)
          [] t = "counterparty" -> FindAll(COUNTERPARTY_KEYWORDS, text)
          [] t = "underlying" -> FindAll(UNDERLYING_KEYWORDS, text)
          [] t = "barrier" -> FindAll(BARRIER_KEYWORDS, text)]

\* ------------------------------------------------------------------------
\* Merge engine: ChatNER._merge_entities and DocxParser._merge_entities
\* ------------------------------------------------------------------------

\* the types held by any of the maps
AllTypes(dicts) == UNION {DOMAIN dicts[k] : k \in DOMAIN dicts}

\* the values of type t of all the maps, in argument order
RECURSIVE ConcatValues(_, _)
ConcatValues(dicts, t) ==
    IF dicts = <<>> THEN <<>>
    ELSE (IF t \in DOMAIN Head(dicts) THEN Head(dicts)[t] ELSE <<>>)
         \o ConcatValues(Tail(dicts), t)

RECURSIVE ChatDedupCaseSensitive(_, _, _)
ChatDedupCaseSensitive(items, seen, deduped) ==
    IF items = <<>> THEN deduped
    ELSE LET normalized == Strip(Head(items))
         IN IF normalized \notin seen
            THEN ChatDedupCaseSensitive(Tail(items), seen \cup {normalized},
                                        Append(deduped, Strip(Head(items))))
            ELSE ChatDedupCaseSensitive(Tail(items), seen, deduped)

RECURSIVE ChatDedupLastWins(_, _, _)
ChatDedupLastWins(items, seen, deduped) ==
    IF items = <<>> THEN deduped
    ELSE LET item == items[Len(items)]
             normalized == Lower(Strip(item))
             rest == SubSeq(items, 1, Len(items) - 1)
         IN IF normalized \notin seen
            THEN ChatDedupLastWins(rest, seen \cup {normalized}, Append(deduped, Strip(item)))
            ELSE ChatDedupLastWins(rest, seen, deduped)

\* chat_ner.py 87-95: the dedup loop over one type's concatenated list
RECURSIVE ChatDedup(_, _, _)
ChatDedup(items, seen, deduped) ==
    IF items = <<>> THEN deduped
    ELSE LET item == Head(items)
             normalized == Lower(Strip(item))
         IN IF normalized \notin seen
            THEN ChatDedup(Tail(items), seen \cup {normalized}, Append(deduped, Strip(item)))
            ELSE ChatDedup(Tail(items), seen, deduped)

ChatNER_merge_entities(dicts) ==
    [t \in AllTypes(dicts) |-> ChatDedup(ConcatValues(dicts, t), {}, <<>>)]

RECURSIVE DocxDedupNoSeen(_, _, _)
DocxDedupNoSeen(items, seen, values) ==
    IF items = <<>> THEN values
    ELSE LET normalized == normalize_entity(Head(items))
         IN IF normalized # <<>>
            THEN DocxDedupNoSeen(Tail(items), seen, Append(values, normalized))
            ELSE DocxDedupNoSeen(Tail(items), seen, values)

\* docx_parser.py 327-331: the loop over the items of one type, the seen set
\* being shared by all the maps
RECURSIVE DocxDedup(_, _, _)
DocxDedup(items, seen, values) ==
    IF items = <<>> THEN values
    ELSE LET normalized == normalize_entity(Head(items))
         IN IF normalized # <<>> /\ Lower(normalized) \notin seen
            THEN DocxDedup(Tail(items), seen \cup {Lower(normalized)}, Append(values, normalized))
            ELSE DocxDedup(Tail(items), seen, values)

DocxParser_merge_entities_keeping(dicts) ==
    [t \in AllTypes(dicts) |-> DocxDedup(ConcatValues(dicts, t), {}, <<>>)]

DocxParser_merge_entities(dicts) ==
    LET values == [t \in AllTypes(dicts) |-> DocxDedup(ConcatValues(dicts, t), {}, <<>>)]
    IN [t \in {u \in AllTypes(dicts) : values[u] # <<>>} |-> values[t]]

\* ------------------------------------------------------------------------
\* DocxParser (services/docx_parser.py): a document is its paragraphs and its
\* tables, a table the sequence of its rows, a row the sequence of its cells
\* ------------------------------------------------------------------------

ContainsAny(key, terms) == \E term \in terms : Contains(key, term)

\* para.text of the paragraphs with para.text.strip(), joined and cleaned
DocxParser_extract_text(d) ==
    clean_text(Join(SelectSeq(d.paragraphs, LAMBDA p : Strip(p) # <<>>), <<"\n">>))

\* re.findall(r'[\d,]+\.?\d*', value)
NUMERIC == Pattern(<<Part(NumberToken)>>, FALSE)

\* the (key, value) pairs of adjacent cells of one row, the cells stripped
RowPairs(row) ==
    [i \in 1..(Len(row) - 1) |-> <<Lower(Strip(row[i])), Strip(row[i + 1])>>]

RECURSIVE Flatten(_)
Flatten(seqs) == IF seqs = <<>> THEN <<>> ELSE Head(seqs) \o Flatten(Tail(seqs))

\* the pairs of all rows of all tables, in document order
CellPairs(d) ==
    Flatten([n \in DOMAIN d.tables |->
                Flatten([r \in DOMAIN d.tables[n] |-> RowPairs(d.tables[n][r])])])

\* the branch of the if/elif chain of _extract_from_tables a key cell takes
TableBranch(key) ==
    IF ContainsAny(key, {<<"c","o","u","n","t","e","r","p","a","r","t","y">>, <<"p","a","r","t","y">>, <<"i","s","s","u","e","r">>}) THEN "counterparty"
    ELSE IF ContainsAny(key, {<<"n","o","t","i","o","n","a","l">>, <<"p","r","i","n","c","i","p","a","l">>, <<"a","m","o","u","n","t">>}) THEN "notional"
    ELSE IF Contains(key, <<"i","s","i","n">>) THEN "isin"
    ELSE IF ContainsAny(key, {<<"u","n","d","e","r","l","y","i","n","g">>, <<"r","e","f","e","r","e","n","c","e">>, <<"a","s","s","e","t">>}) THEN "underlying"
    ELSE IF ContainsAny(key, {<<"m","a","t","u","r","i","t","y">>, <<"e","x","p","i","r","y">>, <<"e","x","p","i","r","a","t","i","o","n">>}) THEN "maturity"
    ELSE IF ContainsAny(key, {<<"c","o","u","p","o","n">>, <<"r","a","t","e">>, <<"i","n","t","e","r","e","s","t">>}) THEN "coupon"
    ELSE IF ContainsAny(key, {<<"b","a","r","r","i","e","r">>, <<"s","t","r","i","k","e">>, <<"t","r","i","g","g","e","r">>}) THEN "barrier"
    ELSE IF ContainsAny(key, {<<"t","r","a","d","e"," ","d","a","t","e">>, <<"e","x","e","c","u","t","i","o","n"," ","d","a","t","e">>}) THEN "trade_date"
    ELSE IF Contains(key, <<"c","u","r","r","e","n","c","y">>) THEN "currency"
    ELSE None

MinNameLen == 2

CurrencyCodeLen == 3

\* what the branch appends to its type for the value cell
TableValues(branch, value) ==
    CASE branch \in {"counterparty", "underlying"} ->
            IF value # <<>> /\ Len(value) > MinNameLen THEN <<value>> ELSE <<>>
      [] branch \in {"notional", "barrier"} -> FindAll(NUMERIC, value)
      [] branch = "isin" -> FindAll(ISIN, value)
      [] branch = "maturity" ->
            LET date_match == FindAll(DATE, value)
            IN IF date_match # <<>> THEN date_match
               ELSE IF value # <<>> THEN <<value>> ELSE <<>>
      [] branch = "coupon" -> FindAll(PERCENTAGE, value)
      [] branch = "trade_date" -> FindAll(DATE, value)
      [] branch = "currency" ->
            IF value # <<>> /\ Len(value) = CurrencyCodeLen /\ IsUpper(value)
            THEN <<value>> ELSE <<>>
      [] OTHER -> <<>>

TableTypes ==
    {"counterparty", "notional", "isin", "underlying", "maturity", "coupon", "barrier",
     "trade_date", "currency"}

DocxParser_extract_from_tables(d) ==
    LET pairs == CellPairs(d)
    IN [t \in TableTypes |->
           Flatten([n \in DOMAIN pairs |->
                       IF TableBranch(pairs[n][1]) = t
                       THEN TableValues(t, pairs[n][2]) ELSE <<>>])]

\* the branch of the if/elif chain of _extract_key_value_pairs a key takes
KeyValueBranch(key) ==
    IF ContainsAny(key, {<<"c","o","u","n","t","e","r","p","a","r","t","y">>, <<"p","a","r","t","y">>, <<"i","s","s","u","e","r">>, <<"c","l","i","e","n","t">>}) THEN "counterparty"
    ELSE IF ContainsAny(key, {<<"n","o","t","i","o","n","a","l">>, <<"p","r","i","n","c","i","p","a","l">>, <<"n","o","m","i","n","a","l">>}) THEN "notional"
    ELSE IF ContainsAny(key, {<<"u","n","d","e","r","l","y","i","n","g">>, <<"r","e","f","e","r","e","n","c","e">>, <<"a","s","s","e","t">>}) THEN "underlying"
    ELSE IF ContainsAny(key, {<<"m","a","t","u","r","i","t","y">>, <<"e","x","p","i","r","y">>, <<"e","x","p","i","r","a","t","i","o","n">>}) THEN "maturity"
    ELSE IF ContainsAny(key, {<<"c","o","u","p","o","n">>, <<"i","n","t","e","r","e","s","t"," ","r","a","t","e">>}) THEN "coupon"
    ELSE IF ContainsAny(key, {<<"b","a","r","r","i","e","r">>, <<"s","t","r","i","k","e">>, <<"t","r","i","g","g","e","r">>}) THEN "barrier"
    ELSE IF ContainsAny(key, {<<"t","r","a","d","e"," ","d","a","t","e">>, <<"e","x","e","c","u","t","i","o","n">>}) THEN "trade_date"
    ELSE IF ContainsAny(key, {<<"p","a","y","m","e","n","t"," ","f","r","e","q","u","e","n","c","y">>, <<"f","r","e","q","u","e","n","c","y">>}) THEN "payment_frequency"
    ELSE None

KeyValueTypes ==
    {"counterparty", "notional", "underlying", "maturity", "coupon", "barrier",
     "trade_date", "payment_frequency"}

\* the (key, value) pair of one line, or <<>> when the line has no separator
LinePair(raw) ==
    LET line == Strip(raw)
        parts == SplitFirst(line, {":", "-"})
    IN IF Len(parts) = 2 THEN <<Lower(Strip(parts[1])), Strip(parts[2])>> ELSE <<>>

DocxParser_extract_key_value_pairs(text) ==
    LET lines == Split(text, "\n")
        pairs == [n \in DOMAIN lines |-> LinePair(lines[n])]
    IN [t \in KeyValueTypes |->
           Flatten([n \in DOMAIN pairs |->
                       IF pairs[n] # <<>> /\ KeyValueBranch(pairs[n][1]) = t
                       THEN <<pairs[n][2]>> ELSE <<>>])]

DocxParser_parse(d) ==
    LET full_text == DocxParser_extract_text(d)
        table_data == DocxParser_extract_from_tables(d)
        pattern_entities == extract_all(full_text)
        kv_entities == DocxParser_extract_key_value_pairs(full_text)
    IN DocxParser_merge_entities(<<pattern_entities, table_data, kv_entities>>)

\* ------------------------------------------------------------------------
\* ChatNER._validate_isin (services/chat_ner.py)
\* ------------------------------------------------------------------------

IsinLength == 12

validate_isin_no_check_digit(s) ==
    IF Len(s) # IsinLength THEN FALSE
    ELSE IF ~IsAlpha(SubSeq(s, 1, 2)) THEN FALSE
    ELSE IF ~IsAlnum(SubSeq(s, 3, 11)) THEN FALSE
    ELSE TRUE

\* isin[:2], isin[2:11] and isin[11] of the code are the characters 1..2,
\* 3..11 and 12 here
validate_isin(s) ==
    IF Len(s) # IsinLength THEN FALSE
    ELSE IF ~IsAlpha(SubSeq(s, 1, 2)) THEN FALSE
    ELSE IF ~IsAlnum(SubSeq(s, 3, 11)) THEN FALSE
    ELSE IF ~IsDigit(<<s[12]>>) THEN FALSE
    ELSE TRUE

\* ------------------------------------------------------------------------
\* SpacyNERPipeline.extract_financial_entities (nlp/spacy_pipeline.py): the
\* recognizer is an external model; its spans are an input, each a text and a
\* label
\* ------------------------------------------------------------------------

NerTypes ==
    {"counterparty", "person", "currency_amounts", "dates", "percentages", "numbers",
     "organizations", "locations"}

\* the label whose spans go to a type
LabelOf(t) ==
    CASE t \in {"counterparty", "organizations"} -> "ORG"
      [] t = "person" -> "PERSON"
      [] t = "currency_amounts" -> "MONEY"
      [] t = "dates" -> "DATE"
      [] t = "percentages" -> "PERCENT"
      [] t = "numbers" -> "CARDINAL"
      [] t = "locations" -> "GPE"

\* v for k, v in d.items() if v
DropEmpty(m) == [t \in {u \in DOMAIN m : m[u] # <<>>} |-> m[t]]

extract_financial_entities(spans) ==
    DropEmpty([t \in NerTypes |->
        Flatten([n \in DOMAIN spans |->
                    IF spans[n].label = LabelOf(t) THEN <<spans[n].text>> ELSE <<>>])])

\* ------------------------------------------------------------------------
\* ChatNER (services/chat_ner.py)
\* ------------------------------------------------------------------------

\* (\d+)\s*(mio|million|bn|billion)
notional_pattern ==
    Pattern(<<Group(Plus(Digit)), Part(Star(Space)),
              Group(Alt(<<Lit(<<"m","i","o">>), Lit(<<"m","i","l","l","i","o","n">>), Lit(<<"b","n">>), Lit(<<"b","i","l","l","i","o","n">>)>>))>>,
            TRUE)

\* (\w+\s*[+\-]\s*\d+\s*bps)
rate_pattern ==
    Pattern(<<Group(Cat(<<Plus(Word), Star(Space), AnyOf({"+", "-"}), Star(Space),
                          Plus(Digit), Star(Space), Lit(<<"b","p","s">>)>>))>>,
            TRUE)

\* \b(Quarterly|Monthly|Semi-annually|Annually)\b
freq_pattern ==
    Pattern(<<Part(WordBoundary),
              Group(Alt(<<Lit(<<"Q","u","a","r","t","e","r","l","y">>), Lit(<<"M","o","n","t","h","l","y">>), Lit(<<"S","e","m","i","-","a","n","n","u","a","l","l","y">>),
                          Lit(<<"A","n","n","u","a","l","l","y">>)>>)),
              Part(WordBoundary)>>,
            TRUE)

\* \b(\d+Y)\b
tenor_pattern ==
    Pattern(<<Part(WordBoundary), Group(Cat(<<Plus(Digit), Ch("Y")>>)), Part(WordBoundary)>>,
            FALSE)

\* \b(estr|euribor|libor|sofr)\b
underlying_pattern ==
    Pattern(<<Part(WordBoundary),
              Group(Alt(<<Lit(<<"e","s","t","r">>), Lit(<<"e","u","r","i","b","o","r">>), Lit(<<"l","i","b","o","r">>), Lit(<<"s","o","f","r">>)>>)),
              Part(WordBoundary)>>,
            TRUE)

\* list(set(matches)): the distinct matches in an order the hash seed of the
\* process decides; every order of them is possible
Perms(S) ==
    {f \in [1..Cardinality(S) -> S] : \A i, j \in 1..Cardinality(S) : i # j => f[i] # f[j]}

SetOrders(matches) == Perms(Range(matches))

ChatTypes == {"isin", "notional", "interest_rate", "payment_frequency", "tenor", "underlying"}

\* freq_order and underlying_order are the orders list(set(...)) gave
ChatNER_extract_chat_specific(text, freq_order, underlying_order) ==
    LET notional_matches == FindAll(notional_pattern, text)
    IN DropEmpty([t \in ChatTypes |->
        CASE t = "isin" -> FindAll(ISIN, text)
          [] t = "notional" ->
                [n \in DOMAIN notional_matches |->
                    notional_matches[n][1] \o <<" ">> \o notional_matches[n][2]]
          [] t = "interest_rate" -> FindAll(rate_pattern, text)
          [] t = "payment_frequency" -> freq_order
          [] t = "tenor" -> FindAll(tenor_pattern, text)
          [] t = "underlying" -> underlying_order])

FreqOrders(text) == SetOrders(FindAll(freq_pattern, text))

UnderlyingOrders(text) ==
    LET matches == FindAll(underlying_pattern, text)
    IN SetOrders([n \in DOMAIN matches |-> Lower(matches[n])])

Abbreviations ==
    <<<<<<"G","S">>, <<"G","o","l","d","m","a","n"," ","S","a","c","h","s">>>>, <<<<"M","S">>, <<"M","o","r","g","a","n"," ","S","t","a","n","l","e","y">>>>, <<<<"J","P","M">>, <<"J","P","M","o","r","g","a","n">>>>,
      <<<<"B","A","C">>, <<"B","a","n","k"," ","o","f"," ","A","m","e","r","i","c","a">>>>, <<<<"C">>, <<"C","i","t","i","g","r","o","u","p">>>>, <<<<"D","B">>, <<"D","e","u","t","s","c","h","e"," ","B","a","n","k">>>>,
      <<<<"U","B","S">>, <<"U","B","S"," ","G","r","o","u","p">>>>, <<<<"C","S">>, <<"C","r","e","d","i","t"," ","S","u","i","s","s","e">>>>, <<<<"H","S","B","C">>, <<"H","S","B","C"," ","H","o","l","d","i","n","g","s">>>>,
      <<<<"B","N","P">>, <<"B","N","P"," ","P","a","r","i","b","a","s">>>>>>

AbbreviationKeys == {Abbreviations[n][1] : n \in DOMAIN Abbreviations}

Expansion(key) == Abbreviations[CHOOSE n \in DOMAIN Abbreviations : Abbreviations[n][1] = key][2]

expand_abbreviations(text) ==
    IF Upper(text) \in AbbreviationKeys THEN Expansion(Upper(text)) ELSE text

MinValueLen == 2

\* the values _post_process keeps of one type, in order
RECURSIVE PostProcessValues(_, _)
PostProcessValues(t, values) ==
    IF values = <<>> THEN <<>>
    ELSE LET value == Head(values)
             normalized == normalize_entity(value)
             expanded == IF t = "counterparty" THEN expand_abbreviations(normalized)
                         ELSE normalized
         IN IF Len(value) < MinValueLen THEN PostProcessValues(t, Tail(values))
            ELSE IF t = "isin" /\ ~validate_isin(expanded) THEN PostProcessValues(t, Tail(values))
            ELSE <<expanded>> \o PostProcessValues(t, Tail(values))

ChatNER_post_process(entities) ==
    DropEmpty([t \in DOMAIN entities |-> PostProcessValues(t, entities[t])])

\* the three extractor outputs handed to the merge
ChatNER_extractor_outputs(cleaned_text, spans, freq_order, underlying_order) ==
    <<extract_financial_entities(spans), extract_all(cleaned_text),
      ChatNER_extract_chat_specific(cleaned_text, freq_order, underlying_order)>>

\* ------------------------------------------------------------------------
\* PdfLLM (services/pdf_llm.py)
\* ------------------------------------------------------------------------

Sentinels == {<<"n","o","t"," ","f","o","u","n","d">>, <<"n","/","a">>, <<"n","o","n","e">>, <<"-">>, <<>>, <<"n","o","t"," ","s","p","e","c","i","f","i","e","d">>}

\* the type a key of the LLM response stands for
AliasType(key) ==
    CASE key \in {<<"c","o","u","n","t","e","r","p","a","r","t","y">>, <<"i","s","s","u","e","r">>, <<"p","a","r","t","y">>, <<"i","n","v","e","s","t","o","r">>} -> "counterparty"
      [] key \in {<<"n","o","t","i","o","n","a","l">>, <<"p","r","i","n","c","i","p","a","l">>, <<"a","m","o","u","n","t">>, <<"i","n","v","e","s","t","m","e","n","t">>} -> "notional"
      [] key = <<"i","s","i","n">> -> "isin"
      [] key \in {<<"u","n","d","e","r","l","y","i","n","g">>, <<"r","e","f","e","r","e","n","c","e">>, <<"a","s","s","e","t">>, <<"i","n","s","t","r","u","m","e","n","t">>} -> "underlying"
      [] key \in {<<"m","a","t","u","r","i","t","y">>, <<"m","a","t","u","r","i","t","y","_","d","a","t","e">>, <<"e","x","p","i","r","y">>, <<"e","x","i","t">>} -> "maturity"
      [] key \in {<<"c","o","u","p","o","n">>, <<"i","n","t","e","r","e","s","t","_","r","a","t","e">>, <<"d","i","v","i","d","e","n","d">>, <<"i","r","r">>, <<"r","e","t","u","r","n">>} -> "coupon"
      [] key \in {<<"b","a","r","r","i","e","r">>, <<"t","h","r","e","s","h","o","l","d">>, <<"m","u","l","t","i","p","l","i","e","r">>} -> "barrier"
      [] key \in {<<"t","r","a","d","e","_","d","a","t","e">>, <<"i","s","s","u","e","_","d","a","t","e">>, <<"d","a","t","e">>} -> "trade_date"
      [] key = <<"c","u","r","r","e","n","c","y">> -> "currency"
      [] key \in {<<"p","a","y","m","e","n","t","_","f","r","e","q","u","e","n","c","y">>, <<"f","r","e","q","u","e","n","c","y">>} -> "payment_frequency"
      [] key \in {<<"s","t","r","i","k","e","_","p","r","i","c","e">>, <<"s","t","r","i","k","e">>} -> "strike_price"
      [] OTHER -> None

LlmTypes ==
    {"counterparty", "notional", "isin", "underlying", "maturity", "coupon", "barrier",
     "trade_date", "currency", "payment_frequency", "strike_price"}

\* the candidate of a line when the value is compared with the sentinels as
\* it is written
LineCandidateCased(line) ==
    LET parts == SplitFirst(line, {":"})
    IN IF Len(parts) # 2 THEN <<>>
       ELSE LET key == Lower(Strip(parts[1]))
                value == Strip(parts[2])
            IN IF value \in Sentinels \/ AliasType(key) = None THEN <<>>
               ELSE <<AliasType(key), value>>

\* the (type, value) candidate of one response line, or <<>>
LineCandidate(line) ==
    LET parts == SplitFirst(line, {":"})
    IN IF Len(parts) # 2 THEN <<>>
       ELSE LET key == Lower(Strip(parts[1]))
                value == Strip(parts[2])
            IN IF Lower(value) \in Sentinels \/ AliasType(key) = None THEN <<>>
               ELSE <<AliasType(key), value>>

PdfLLM_parse_llm_response(response_text) ==
    LET lines == Split(Strip(response_text), "\n")
        cands == [n \in DOMAIN lines |-> LineCandidate(lines[n])]
    IN DropEmpty([t \in LlmTypes |->
           Flatten([n \in DOMAIN cands |->
                       IF cands[n] # <<>> /\ cands[n][1] = t THEN <<cands[n][2]>> ELSE <<>>])])

PdfLLM_extract_with_patterns(text) == DropEmpty(extract_all(text))

\* ------------------------------------------------------------------------
\* DocumentClassifier (services/document_classifier.py)
\* ------------------------------------------------------------------------

\* a b with the gap between the two words
Phrase(a, gap, b) == Pattern(<<Part(Cat(<<Lit(a), gap, Lit(b)>>))>>, FALSE)

Gap == Star(Space)

WideGap == Plus(Space)

\* \[\d{2}:\d{2}\] and \[\d{2}:\d{2}:\d{2}\]
Timestamp(groups) ==
    Pattern(<<Part(Cat(<<Ch("["), Rep(Digit, 2, 2),
                         Rep(Cat(<<Ch(":"), Rep(Digit, 2, 2)>>), groups, groups),
                         Ch("]")>>))>>, FALSE)

\* invoice\s*#?\d+
InvoiceNumber ==
    Pattern(<<Part(Cat(<<Lit(<<"i","n","v","o","i","c","e">>), Gap, Opt(Ch("#")), Plus(Digit)>>))>>, FALSE)

\* buy|sell|hold\s+recommendation
Recommendation ==
    Pattern(<<Part(Alt(<<Lit(<<"b","u","y">>), Lit(<<"s","e","l","l">>),
                         Cat(<<Lit(<<"h","o","l","d">>), WideGap, Lit(<<"r","e","c","o","m","m","e","n","d","a","t","i","o","n">>)>>)>>))>>, FALSE)

\* the weight is in hundredths
Category(name, keywords, patterns, weight) ==
    [name |-> name, keywords |-> keywords, patterns |-> patterns, weight |-> weight]

categories ==
    <<Category(<<"t","e","r","m","_","s","h","e","e","t">>,
               <<<<"t","e","r","m"," ","s","h","e","e","t">>, <<"t","e","r","m","s","h","e","e","t">>, <<"t","e","r","m","s"," ","a","n","d"," ","c","o","n","d","i","t","i","o","n","s">>, <<"p","r","o","d","u","c","t"," ","t","e","r","m","s">>>>,
               <<Phrase(<<"t","e","r","m">>, Gap, <<"s","h","e","e","t">>), Phrase(<<"f","i","n","a","l">>, Gap, <<"t","e","r","m","s">>)>>, 100),
      Category(<<"t","r","a","d","e","_","c","o","n","f","i","r","m","a","t","i","o","n">>,
               <<<<"t","r","a","d","e"," ","c","o","n","f","i","r","m","a","t","i","o","n">>, <<"t","r","a","d","e"," ","d","a","t","e">>, <<"s","e","t","t","l","e","m","e","n","t"," ","d","a","t","e">>, <<"c","o","n","f","i","r","m","a","t","i","o","n">>>>,
               <<Phrase(<<"t","r","a","d","e">>, Gap, <<"c","o","n","f","i","r","m","a","t","i","o","n">>),
                 Phrase(<<"c","o","n","f","i","r","m","a","t","i","o","n">>, Cat(<<Gap, Lit(<<"o","f">>), Gap>>), <<"t","r","a","d","e">>)>>, 100),
      Category(<<"t","r","a","d","i","n","g","_","c","h","a","t">>,
               <<<<"c","h","a","t">>, <<"c","o","n","v","e","r","s","a","t","i","o","n">>, <<"m","e","s","s","a","g","e">>, <<"m","e","e","t","i","n","g">>>>,
               <<Timestamp(1), Timestamp(2)>>, 90),
      Category(<<"s","t","r","u","c","t","u","r","e","d","_","n","o","t","e">>,
               <<<<"s","t","r","u","c","t","u","r","e","d"," ","n","o","t","e">>, <<"s","t","r","u","c","t","u","r","e","d"," ","p","r","o","d","u","c","t">>, <<"c","a","p","i","t","a","l"," ","p","r","o","t","e","c","t","e","d">>,
                 <<"a","u","t","o","c","a","l","l">>, <<"b","a","r","r","i","e","r">>, <<"c","o","u","p","o","n">>>>,
               <<Phrase(<<"s","t","r","u","c","t","u","r","e","d">>, WideGap, <<"n","o","t","e">>),
                 Phrase(<<"c","a","p","i","t","a","l">>, WideGap, <<"p","r","o","t","e","c","t","e","d">>)>>, 95),
      Category(<<"c","o","n","t","r","a","c","t">>,
               <<<<"a","g","r","e","e","m","e","n","t">>, <<"c","o","n","t","r","a","c","t">>, <<"i","s","d","a">>, <<"m","a","s","t","e","r"," ","a","g","r","e","e","m","e","n","t">>, <<"p","a","r","t","i","e","s">>>>,
               <<Phrase(<<"t","h","i","s">>, WideGap, <<"a","g","r","e","e","m","e","n","t">>),
                 Phrase(<<"m","a","s","t","e","r">>, WideGap, <<"a","g","r","e","e","m","e","n","t">>)>>, 85),
      Category(<<"i","n","v","o","i","c","e">>,
               <<<<"i","n","v","o","i","c","e">>, <<"b","i","l","l">>, <<"p","a","y","m","e","n","t"," ","d","u","e">>, <<"t","o","t","a","l"," ","a","m","o","u","n","t">>, <<"i","n","v","o","i","c","e"," ","n","u","m","b","e","r">>>>,
               <<InvoiceNumber, Phrase(<<"p","a","y","m","e","n","t">>, WideGap, <<"d","u","e">>)>>, 90),
      Category(<<"r","e","s","e","a","r","c","h","_","r","e","p","o","r","t">>,
               <<<<"a","n","a","l","y","s","i","s">>, <<"r","e","s","e","a","r","c","h">>, <<"r","e","c","o","m","m","e","n","d","a","t","i","o","n">>, <<"t","a","r","g","e","t"," ","p","r","i","c","e">>, <<"o","u","t","l","o","o","k">>>>,
               <<Phrase(<<"p","r","i","c","e">>, WideGap, <<"t","a","r","g","e","t">>), Recommendation>>, 80),
      Category(<<"g","e","n","e","r","a","l","_","f","i","n","a","n","c","i","a","l">>,
               <<<<"f","i","n","a","n","c","i","a","l">>, <<"f","i","n","a","n","c","e">>, <<"i","n","v","e","s","t","m","e","n","t">>, <<"p","o","r","t","f","o","l","i","o">>>>,
               <<>>, 50)>>

CategoryNames == [n \in DOMAIN categories |-> categories[n].name]

\* A score is a binary64 float. <<m, d>> stands for the double that lies d
\* units in the last place above the double nearest to m thousandths; the
\* doubles compare as the pairs do, by m and then by d.
Zero == <<0, 0>>

Less(a, b) == a[1] < b[1] \/ (a[1] = b[1] /\ a[2] < b[2])

\* 0.3 a keyword and 0.5 a pattern, in tenths
KeywordScore == 3

PatternScore == 5

\* the <<weight, keyword_matches, pattern_matches>> for which the double
\* (0.0 + keyword_matches * 0.3 + pattern_matches * 0.5) * weight is the one
\* above, or the one below, the double nearest to the decimal product; for
\* the others it is the nearest
ProductAbove ==
    {<<80, 1, 1>>, <<80, 2, 1>>, <<80, 2, 2>>, <<80, 4, 2>>, <<80, 5, 0>>, <<90, 1, 1>>,
     <<90, 1, 2>>, <<90, 2, 1>>, <<90, 2, 2>>, <<90, 4, 2>>}

ProductBelow ==
    {<<50, 3, 0>>, <<80, 3, 1>>, <<85, 3, 0>>, <<85, 4, 1>>, <<90, 3, 0>>, <<95, 1, 2>>,
     <<95, 3, 0>>, <<95, 3, 1>>, <<95, 5, 0>>, <<95, 6, 0>>, <<95, 6, 1>>, <<95, 6, 2>>,
     <<100, 3, 0>>}

WeightedScoreUnweighted(weight, keyword_matches, pattern_matches) ==
    <<(keyword_matches * KeywordScore + pattern_matches * PatternScore) * 100, 0>>

\* score * config['weight'] of the code, the score being
\* keyword_matches * 0.3 + pattern_matches * 0.5
WeightedScore(weight, keyword_matches, pattern_matches) ==
    <<(keyword_matches * KeywordScore + pattern_matches * PatternScore) * weight,
      IF <<weight, keyword_matches, pattern_matches>> \in ProductAbove THEN 1
      ELSE IF <<weight, keyword_matches, pattern_matches>> \in ProductBelow THEN -1
      ELSE 0>>

\* the <<m, d, boost>> for which the double <<m, d>> + boost thousandths is
\* the one above, or the one below, the double nearest to the decimal sum
SumAbove ==
    {<<450, 0, 400>>, <<540, 0, 400>>, <<990, 1, 400>>, <<1100, 0, 300>>, <<1100, 0, 600>>,
     <<1170, 1, 400>>, <<1260, 0, 400>>, <<1440, 1, 400>>, <<1530, 0, 400>>,
     <<1600, 0, 300>>, <<1980, 1, 400>>, <<2115, 0, 600>>, <<2200, 0, 600>>}

SumBelow ==
    {<<285, 0, 500>>, <<300, 0, 600>>, <<570, 0, 500>>, <<600, 0, 300>>, <<760, 0, 600>>,
     <<785, -1, 600>>, <<855, -1, 600>>, <<950, 0, 600>>, <<1140, 0, 600>>,
     <<1200, 0, 600>>, <<1235, -1, 500>>, <<1260, 0, 600>>, <<1330, -1, 500>>,
     <<1330, -1, 600>>, <<1425, -1, 500>>, <<1640, 0, 600>>, <<1710, -1, 600>>,
     <<1805, 0, 500>>, <<1830, -1, 600>>, <<1900, 0, 300>>, <<2185, -1, 500>>,
     <<2185, -1, 600>>, <<2660, -1, 500>>, <<2685, -1, 600>>}

\* scores[category] += boost
Boosted(score, boost) ==
    <<score[1] + boost,
      IF <<score[1], score[2], boost>> \in SumAbove THEN 1
      ELSE IF <<score[1], score[2], boost>> \in SumBelow THEN -1
      ELSE 0>>

\* 2^n
RECURSIVE Pow2(_)
Pow2(n) == IF n = 0 THEN 1 ELSE 2 * Pow2(n - 1)

\* 2^n modulo 125
RECURSIVE Pow2Mod125(_)
Pow2Mod125(n) == IF n = 0 THEN 1 ELSE (2 * Pow2Mod125(n - 1)) % 125

\* the binary exponent e of m thousandths: 2^e <= m / 1000 < 2^(e + 1)
Exponent(m) ==
    CHOOSE e \in -10..2 :
        IF e >= 0 THEN 1000 * Pow2(e) <= m /\ m < 2000 * Pow2(e)
        ELSE 1000 <= m * Pow2(-e) /\ m * Pow2(-e) < 2000

\* where the double nearest to m thousandths lies: above the decimal (1),
\* below it (-1) or on it (0). In units in the last place the decimal is
\* m * 2^(49 - e) / 125.
NearestSide(m) ==
    LET r == ((m % 125) * Pow2Mod125(49 - Exponent(m))) % 125
    IN IF r = 0 THEN 0 ELSE IF 2 * r < 125 THEN -1 ELSE 1

\* round(v, 2), in hundredths: to the nearest hundredth of the double, a
\* double on the half going to the even hundredth
Round2(score) ==
    LET q == score[1] \div 10
        r == score[1] % 10
        side == IF score[2] # 0 THEN score[2] ELSE NearestSide(score[1])
    IN IF r < 5 THEN q
       ELSE IF r > 5 THEN q + 1
       ELSE IF side > 0 THEN q + 1
       ELSE IF side < 0 THEN q
       ELSE IF q % 2 = 0 THEN q ELSE q + 1

\* the scores of the text before the entity hints
text_scores(text_lower) ==
    [category \in Range(CategoryNames) |->
        LET config == categories[CHOOSE n \in DOMAIN categories :
                                     categories[n].name = category]
            keyword_matches ==
                Cardinality({n \in DOMAIN config.keywords :
                                Contains(text_lower, config.keywords[n])})
            pattern_matches ==
                Cardinality({n \in DOMAIN config.patterns :
                                Search(config.patterns[n], text_lower)})
        IN WeightedScore(config.weight, keyword_matches, pattern_matches)]

\* the hint taken for applying as soon as the type is a key of the map
PresentKey(entities, t) == t \in DOMAIN entities

\* 'isin' in entities and entities['isin']
Present(entities, t) == t \in DOMAIN entities /\ entities[t] # <<>>

adjust_with_entities(scores, entities) ==
    LET by_isin ==
            IF Present(entities, "isin")
            THEN [scores EXCEPT ![<<"s","t","r","u","c","t","u","r","e","d","_","n","o","t","e">>] = Boosted(@, 500),
                                ![<<"t","r","a","d","e","_","c","o","n","f","i","r","m","a","t","i","o","n">>] = Boosted(@, 300)]
            ELSE scores
        by_trade_references ==
            IF Present(entities, "trade_references")
            THEN [by_isin EXCEPT ![<<"t","r","a","d","e","_","c","o","n","f","i","r","m","a","t","i","o","n">>] = Boosted(@, 600)]
            ELSE by_isin
        by_person ==
            IF "person" \in DOMAIN entities /\ Len(entities["person"]) > 1
            THEN [by_trade_references EXCEPT ![<<"t","r","a","d","i","n","g","_","c","h","a","t">>] = Boosted(@, 400)]
            ELSE by_trade_references
    IN IF Present(entities, "coupon") /\ Present(entities, "barrier")
       THEN [by_person EXCEPT ![<<"s","t","r","u","c","t","u","r","e","d","_","n","o","t","e">>] = Boosted(@, 600)]
       ELSE by_person

\* the scores classify compares: no entity hint for a map that is None or {}
final_scores(text, entities) ==
    IF DOMAIN entities # {} THEN adjust_with_entities(text_scores(Lower(text)), entities)
    ELSE text_scores(Lower(text))

format_category_name(category) ==
    Title([i \in DOMAIN category |-> IF category[i] = "_" THEN " " ELSE category[i]])

Unknown == <<"U","n","k","n","o","w","n">>

\* min(scores.values()), the test of the zero case taken on the least score
MinScore(scores) == CHOOSE s \in Range(scores) : \A t \in Range(scores) : ~Less(t, s)

\* max(scores.values())
MaxScore(scores) == CHOOSE s \in Range(scores) : \A t \in Range(scores) : ~Less(s, t)

TopCount == 3

\* a sort that puts the later of two categories with equal scores first
PlaceUnstable(scores, n) ==
    1 + Cardinality({m \in DOMAIN CategoryNames :
                        \/ Less(scores[CategoryNames[n]], scores[CategoryNames[m]])
                        \/ scores[CategoryNames[m]] = scores[CategoryNames[n]] /\ m > n})

\* the place of the n-th category in sorted(scores.items(), key=score,
\* reverse=True): the sort is stable
Place(scores, n) ==
    1 + Cardinality({m \in DOMAIN CategoryNames :
                        \/ Less(scores[CategoryNames[n]], scores[CategoryNames[m]])
                        \/ scores[CategoryNames[m]] = scores[CategoryNames[n]] /\ m < n})

\* the last category with the maximum
top_category_last(scores) ==
    CategoryNames[Max({n \in DOMAIN CategoryNames :
                          scores[CategoryNames[n]] = MaxScore(scores)})]

\* max(scores, key=scores.get): the first category with the maximum
top_category(scores) ==
    CategoryNames[Min({n \in DOMAIN CategoryNames :
                          scores[CategoryNames[n]] = MaxScore(scores)})]

classify(text, entities) ==
    LET scores == final_scores(text, entities)
        ranked(k) == CategoryNames[CHOOSE n \in DOMAIN CategoryNames : Place(scores, n) = k]
    IN IF MaxScore(scores) = Zero
       THEN [document_type |-> Unknown, all_scores |-> <<>>]
       ELSE [document_type |-> format_category_name(top_category(scores)),
             all_scores |-> [k \in 1..TopCount |->
                                [name |-> format_category_name(ranked(k)),
                                 score |-> Round2(scores[ranked(k)])]]]

\* ------------------------------------------------------------------------
\* Calls of the merge engine on maps built value by value
\* ------------------------------------------------------------------------

MaxValues == 3

SourceIds == {1, 2}

MergeTypes == {"counterparty", "isin"}

S_GS == <<"G","S">>

S_gs == <<" ","g","s">>

S_ABCD == <<"A","B","C","D">>

S_a__b == <<"a"," "," ","b">>

S_a_b == <<"a"," ","b">>

S_blank == <<" ">>

ValuePool == {S_GS, S_gs, S_ABCD, S_a__b, S_a_b, S_blank}

EmptyMap == [t \in {} |-> <<>>]

RECURSIVE SumLen(_, _)
SumLen(m, ts) ==
    IF ts = {} THEN 0
    ELSE LET t == CHOOSE u \in ts : TRUE IN Len(m[t]) + SumLen(m, ts \ {t})

CountValues(m) == SumLen(m, DOMAIN m)

TotalValues == CountValues(sources[1]) + CountValues(sources[2])

MergeInit ==
    /\ sources = [k \in SourceIds |-> EmptyMap]
    /\ entity_dicts = <<>>
    /\ merged = None
    /\ engine = None

\* an extractor reports a type with no value (FinancialPatterns.extract_all
\* returns every type, with an empty list when nothing matched)
AddType(k, t) ==
    /\ engine = None
    /\ t \notin DOMAIN sources[k]
    /\ sources' = [sources EXCEPT ![k] = [u \in DOMAIN sources[k] \cup {t} |->
                                          IF u = t THEN <<>> ELSE sources[k][u]]]
    /\ UNCHANGED <<entity_dicts, merged, engine>>
    /\ UNCHANGED exceptMerge

\* an extractor reports one more value of a type
AddValue(k, t, v) ==
    /\ engine = None
    /\ TotalValues < MaxValues
    /\ sources' = [sources EXCEPT ![k] = [u \in DOMAIN sources[k] \cup {t} |->
                                          IF u = t
                                          THEN (IF t \in DOMAIN sources[k]
                                                THEN Append(sources[k][t], v) ELSE <<v>>)
                                          ELSE sources[k][u]]]
    /\ UNCHANGED <<entity_dicts, merged, engine>>
    /\ UNCHANGED exceptMerge

\* the argument lists the engine is called with: the maps in order, or one
\* map merged with itself
MergeArgs == {sources, <<sources[1], sources[1]>>}

ChatMerge ==
    /\ engine = None
    /\ \E args \in MergeArgs :
        /\ entity_dicts' = args
        /\ merged' = ChatNER_merge_entities(args)
    /\ engine' = "ChatNER"
    /\ UNCHANGED sources
    /\ UNCHANGED exceptMerge

DocxMerge ==
    /\ engine = None
    /\ \E args \in MergeArgs :
        /\ entity_dicts' = args
        /\ merged' = DocxParser_merge_entities(args)
    /\ engine' = "DocxParser"
    /\ UNCHANGED sources
    /\ UNCHANGED exceptMerge

MergeNext ==
    \/ \E k \in SourceIds, t \in MergeTypes : AddType(k, t)
    \/ \E k \in SourceIds, t \in MergeTypes, v \in ValuePool : AddValue(k, t, v)
    \/ ChatMerge
    \/ DocxMerge

\* ------------------------------------------------------------------------
\* Properties of the merge engine
\* ------------------------------------------------------------------------

\* the comparison form of a value: trimmed and lower-cased
DedupKey(v) == Lower(Strip(v))

Deduplicated(m) ==
    \A t \in DOMAIN m : \A i, j \in DOMAIN m[t] :
        i # j => DedupKey(m[t][i]) # DedupKey(m[t][j])

MergeCalled == engine # None

\* C1: whatever maps the merge of ChatNER or of DocxParser is given, no two
\* positions of a merged list hold values with the same trimmed, lower-cased
\* form.
C1_DedupInvariant == MergeCalled => Deduplicated(merged)

\* C1 witness: a merge whose input held two values of one type with the same
\* trimmed, lower-cased form, and whose output holds two values of that type.
C1_Witness ==
    /\ MergeCalled
    /\ \E t \in DOMAIN merged :
        LET items == ConcatValues(entity_dicts, t)
        IN /\ Len(merged[t]) >= 2
           /\ \E i, j \in DOMAIN items : i # j /\ DedupKey(items[i]) = DedupKey(items[j])

\* the form in which an engine stores a value it keeps
StoredForm(v) == IF engine = "ChatNER" THEN Strip(v) ELSE normalize_entity(v)

\* the position of the first input value stored as w; 0 when there is none
FirstSeen(items, w) ==
    IF \E k \in DOMAIN items : StoredForm(items[k]) = w
    THEN CHOOSE k \in DOMAIN items :
            /\ StoredForm(items[k]) = w
            /\ \A l \in 1..(k - 1) : StoredForm(items[l]) # w
    ELSE 0

SelfMerge == MergeCalled /\ Len(entity_dicts) = 2 /\ entity_dicts[1] = entity_dicts[2]

\* C4 as stated: merging a map whose lists are deduplicated with itself
\* returns that map.
C4_IdempotenceAsStated ==
    (SelfMerge /\ Deduplicated(entity_dicts[1])) => merged = entity_dicts[1]

\* the values of m are in the form the engine stores: trimmed for ChatNER;
\* for DocxParser equal to their normalize_entity form and not empty, and no
\* type has an empty list
InStoredForm(m) ==
    /\ \A t \in DOMAIN m : \A i \in DOMAIN m[t] : StoredForm(m[t][i]) = m[t][i]
    /\ engine = "DocxParser" =>
          \A t \in DOMAIN m : m[t] # <<>> /\ \A i \in DOMAIN m[t] : m[t][i] # <<>>

\* C4 amended: merging a map with itself returns that map when its lists are
\* deduplicated and its values are already in the form the engine stores.
C4_Idempotence ==
    (SelfMerge /\ Deduplicated(entity_dicts[1]) /\ InStoredForm(entity_dicts[1]))
        => merged = entity_dicts[1]

\* C4 witness: a map in stored form with two values of one type was merged
\* with itself.
C4_Witness ==
    /\ SelfMerge
    /\ Deduplicated(entity_dicts[1])
    /\ InStoredForm(entity_dicts[1])
    /\ \E t \in DOMAIN entity_dicts[1] : Len(entity_dicts[1][t]) >= 2

\* the position of the first input value with the comparison form of w; 0
\* when there is none
FirstOccurrence(items, w) ==
    IF \E k \in DOMAIN items : DedupKey(items[k]) = DedupKey(w)
    THEN Min({k \in DOMAIN items : DedupKey(items[k]) = DedupKey(w)})
    ELSE 0

\* C21: every value of a merged list is the first input occurrence of its
\* trimmed, lower-cased form with only its leading and trailing whitespace
\* removed: the merge of ChatNER and the merge of DocxParser change neither
\* the casing nor the inner characters of the value they keep.
C21_FirstOccurrenceKeptAsIs ==
    MergeCalled =>
        \A t \in DOMAIN merged : \A i \in DOMAIN merged[t] :
            LET items == ConcatValues(entity_dicts, t)
                k == FirstOccurrence(items, merged[t][i])
            IN k > 0 /\ merged[t][i] = Strip(items[k])

\* ------------------------------------------------------------------------
\* Calls of _validate_isin
\* ------------------------------------------------------------------------

S_US0378331005 == <<"U","S","0","3","7","8","3","3","1","0","0","5">>

S_US037833100 == <<"U","S","0","3","7","8","3","3","1","0","0">>

S_12AB34567890 == <<"1","2","A","B","3","4","5","6","7","8","9","0">>

IsinBases == {S_US0378331005, S_12AB34567890}

SubstituteChars == {"A", "a", "7", "-", " "}

\* the candidates: the bases, each with one character replaced, cut short or
\* extended by one character
IsinCandidates ==
    {S_US037833100}
    \cup {[b EXCEPT ![i] = c] : b \in IsinBases, i \in 1..IsinLength, c \in SubstituteChars}
    \cup {SubSeq(b, 1, n) : b \in IsinBases, n \in 0..IsinLength}
    \cup {Append(b, c) : b \in IsinBases, c \in SubstituteChars}

IsinIdle == isin = None /\ valid = FALSE /\ validated = FALSE

IsinInit == isin \in IsinCandidates /\ valid = FALSE /\ validated = FALSE

ValidateIsin ==
    /\ ~validated
    /\ valid' = validate_isin(isin)
    /\ validated' = TRUE
    /\ UNCHANGED isin
    /\ UNCHANGED exceptIsin

\* the strict format: 12 characters, the first 2 alphabetic, the next 9
\* alphanumeric, the last a digit
StrictIsinFormat(s) ==
    /\ Len(s) = 12
    /\ \A i \in 1..2 : IsAlphaChar(s[i])
    /\ \A i \in 3..11 : IsAlphaChar(s[i]) \/ IsDigitChar(s[i])
    /\ IsDigitChar(s[12])

\* C5: _validate_isin answers true exactly for the strings in the strict
\* format; "US0378331005" validates true, "US037833100" and "12AB34567890"
\* validate false.
C5_IsinValidation ==
    validated =>
        /\ valid = StrictIsinFormat(isin)
        /\ isin = S_US0378331005 => valid = TRUE
        /\ isin \in {S_US037833100, S_12AB34567890} => valid = FALSE

\* C5 witness: "US0378331005" was validated and found valid.
C5_Witness == validated /\ isin = S_US0378331005 /\ valid = TRUE

\* ------------------------------------------------------------------------
\* One extraction per format path: DocxParser.parse on a document,
\* ChatNER.extract on a text with the spans the recognizer gives for it,
\* PdfLLM.extract on the text of a PDF with the LLM client present or not and
\* the reply of the LLM
\* ------------------------------------------------------------------------

MaxParagraphs == 4

MaxTokens == 2

MaxLines == 2

P_counterparty == <<"C","o","u","n","t","e","r","p","a","r","t","y",":"," ","G","o","l","d","m","a","n"," ","S","a","c","h","s">>

P_notional == <<"N","o","t","i","o","n","a","l",":"," ","2","0","0"," ","m","i","o">>

P_isin == <<"I","S","I","N",":"," ","U","S","0","3","7","8","3","3","1","0","0","5">>

P_coupon == <<"C","o","u","p","o","n",":"," ","5","%">>

P_maturity == <<"M","a","t","u","r","i","t","y"," ","-"," ","1","2","/","3","1","/","2","0","2","5">>

ParagraphPool == <<P_counterparty, P_notional, P_isin, P_coupon, P_maturity>>

T_terms ==
    <<<<<<"I","S","I","N">>, <<" ","U","S","0","3","7","8","3","3","1","0","0","5"," ">>, <<"C","u","r","r","e","n","c","y">>, <<"U","S","D">>>>,
      <<<<"I","s","s","u","e","r">>, <<"G","S">>, <<"S","t","r","i","k","e">>, <<"1",",","0","0","0",".","5"," ">>>>>>

TablePool == {<<>>, <<T_terms>>}

SeqsUpTo(pool, n) == UNION {[1..m -> pool] : m \in 0..n}

\* at most n picks from a list, repeats allowed, in the order of the list
Picks(list, n) ==
    {[k \in DOMAIN at |-> list[at[k]]] :
        at \in {f \in SeqsUpTo(DOMAIN list, n) :
                    \A k \in DOMAIN f : k = 1 \/ f[k - 1] <= f[k]}}

Documents ==
    {[paragraphs |-> ps, tables |-> ts] : ps \in Picks(ParagraphPool, MaxParagraphs),
                                          ts \in TablePool}

\* the pieces a chat text is made of, with the label the recognizer gives
\* the piece (None: no span)
Token(text, label) == [text |-> text, label |-> label]

TokenPool ==
    <<Token(<<"G","S">>, "ORG"), Token(<<"C">>, "ORG"), Token(<<"h","s","b","c">>, "ORG"),
     Token(<<"G","o","l","d","m","a","n"," ","S","a","c","h","s">>, "ORG"), Token(<<"B","o","b">>, "PERSON"),
     Token(<<"i","s","s","u","e","r",":"," ","G","S">>, None), Token(<<"2","0","0"," ","m","i","o">>, "MONEY"),
     Token(<<"e","s","t","r","+","4","5","b","p","s"," ","Q","u","a","r","t","e","r","l","y"," ","5","Y">>, None), Token(<<"m","o","n","t","h","l","y"," ","S","O","F","R">>, None),
     Token(<<"U","S","0","3","7","8","3","3","1","0","0","5">>, None), Token(<<"q","u","a","r","t","e","r","l","y">>, "DATE")>>

TokenSeqs == Picks(TokenPool, MaxTokens)

ChatText(toks) == Join([n \in DOMAIN toks |-> toks[n].text], <<" ">>)

ChatSpans(toks) == SelectSeq(toks, LAMBDA tok : tok.label # None)

PdfTexts ==
    {<<>>, Join(<<P_counterparty, P_isin, P_isin>>, <<"\n">>),
     Join(<<P_notional, P_coupon>>, <<"\n">>)}

LinePool ==
    {<<"C","O","U","N","T","E","R","P","A","R","T","Y",":"," ","G","o","l","d","m","a","n"," ","S","a","c","h","s">>, <<"I","s","s","u","e","r",":"," ","g","o","l","d","m","a","n"," ","s","a","c","h","s"," ">>, <<"I","S","I","N",":"," ","U","S","0","3","7","8","3","3","1","0","0","5">>,
     <<"i","s","i","n"," ",":"," ","X","S","1","2">>, <<"I","S","I","N",":"," ","N","o","t"," ","f","o","u","n","d">>, <<"N","O","T","I","O","N","A","L",":"," ","N","/","A">>, <<"C","o","u","p","o","n",":"," ","5","%">>,
     <<"H","e","r","e"," ","i","s"," ","w","h","a","t"," ","I"," ","f","o","u","n","d">>}

Replies == {Join(ls, <<"\n">>) : ls \in SeqsUpTo(LinePool, MaxLines)}

ExtractIdle ==
    /\ file_type = None /\ content = None /\ ner_spans = None /\ client = FALSE
    /\ reply = None /\ llm_outcome = "none" /\ recognizer = "none" /\ stage = "idle"
    /\ merged_entities = None /\ result = None
    /\ scanned_text = None /\ strategy = None

Received ==
    /\ stage = "received" /\ merged_entities = None /\ result = None
    /\ scanned_text = None /\ strategy = None

DocxInit ==
    /\ file_type = "docx" /\ content \in Documents
    /\ ner_spans = None /\ client = FALSE /\ reply = None /\ llm_outcome = "none"
    /\ recognizer = "none"
    /\ Received

TxtInit ==
    /\ file_type = "txt"
    /\ \E toks \in TokenSeqs :
          /\ content = ChatText(toks)
          /\ \/ recognizer = "loaded" /\ ner_spans = ChatSpans(toks)
             \/ recognizer \in {"unloadable", "raises"} /\ ner_spans = None
    /\ client = FALSE /\ reply = None /\ llm_outcome = "none"
    /\ Received

PdfInit ==
    /\ file_type = "pdf" /\ content \in PdfTexts
    /\ ner_spans = None /\ client \in BOOLEAN
    /\ \/ ~client /\ reply = None /\ llm_outcome = "none"
       \/ client /\ reply = None /\ llm_outcome \in {"raises", "no_content"}
       \/ client /\ reply \in Replies /\ llm_outcome = "text"
    /\ recognizer = "none"
    /\ Received

\* DocxParser.parse
ParseDocx ==
    /\ stage = "received" /\ file_type = "docx"
    /\ scanned_text' = DocxParser_extract_text(content)
    /\ merged_entities' = DocxParser_parse(content)
    /\ result' = merged_entities'
    /\ strategy' = "rule-based"
    /\ stage' = "extracted"
    /\ UNCHANGED <<file_type, content, ner_spans, client, reply, llm_outcome, recognizer>>
    /\ UNCHANGED exceptExtract

\* ChatNER() when spacy.load raises again after the download attempt, and
\* ChatNER.extract when the call of the recognizer raises: nothing catches it
ExtractChatRaising ==
    /\ stage = "received" /\ file_type = "txt"
    /\ recognizer \in {"unloadable", "raises"}
    /\ stage' = "failed"
    /\ UNCHANGED <<file_type, content, ner_spans, client, reply, llm_outcome, recognizer,
                   merged_entities, result, scanned_text, strategy>>
    /\ UNCHANGED exceptExtract

\* ChatNER.extract with a recognizer that loaded and answers
ExtractChat ==
    /\ stage = "received" /\ file_type = "txt"
    /\ recognizer = "loaded"
    /\ LET cleaned_text == clean_text(content)
       IN /\ scanned_text' = cleaned_text
          /\ \E freq_order \in FreqOrders(cleaned_text),
                underlying_order \in UnderlyingOrders(cleaned_text) :
                merged_entities' = ChatNER_merge_entities(
                    ChatNER_extractor_outputs(cleaned_text, ner_spans, freq_order,
                                              underlying_order))
    /\ result' = ChatNER_post_process(merged_entities')
    /\ strategy' = "ner-model"
    /\ stage' = "extracted"
    /\ UNCHANGED <<file_type, content, ner_spans, client, reply, llm_outcome, recognizer>>
    /\ UNCHANGED exceptExtract

\* PdfLLM.extract when no text could be read from the PDF: ValueError
ExtractPdfNoText ==
    /\ stage = "received" /\ file_type = "pdf"
    /\ clean_text(content) = <<>>
    /\ stage' = "failed"
    /\ UNCHANGED <<file_type, content, ner_spans, client, reply, llm_outcome, recognizer,
                   merged_entities, result, scanned_text, strategy>>
    /\ UNCHANGED exceptExtract

\* PdfLLM.extract with a client whose call returns and whose reply is parsed
ExtractPdfLlm ==
    /\ stage = "received" /\ file_type = "pdf"
    /\ clean_text(content) # <<>>
    /\ client /\ llm_outcome = "text"
    /\ scanned_text' = clean_text(content)
    /\ result' = PdfLLM_parse_llm_response(reply)
    /\ strategy' = "llm"
    /\ stage' = "extracted"
    /\ UNCHANGED <<file_type, content, ner_spans, client, reply, llm_outcome, recognizer, merged_entities>>
    /\ UNCHANGED exceptExtract

\* PdfLLM.extract as it would be without the except branch of
\* _extract_with_llm: an error of the call or of the parsing ends the extraction
ExtractPdfPropagating ==
    /\ stage = "received" /\ file_type = "pdf"
    /\ clean_text(content) # <<>>
    /\ ~client \/ llm_outcome \in {"raises", "no_content"}
    /\ IF client
       THEN stage' = "failed" /\ UNCHANGED <<result, scanned_text, strategy>>
       ELSE /\ scanned_text' = clean_text(content)
            /\ result' = PdfLLM_extract_with_patterns(scanned_text')
            /\ strategy' = "patterns"
            /\ stage' = "extracted"
    /\ UNCHANGED <<file_type, content, ner_spans, client, reply, llm_outcome, recognizer, merged_entities>>
    /\ UNCHANGED exceptExtract

\* PdfLLM.extract without a client, or with a client whose call raises or whose
\* reply carries no content (the parsing of None raises): the pattern library
\* over the text
ExtractPdfPatterns ==
    /\ stage = "received" /\ file_type = "pdf"
    /\ clean_text(content) # <<>>
    /\ ~client \/ llm_outcome \in {"raises", "no_content"}
    /\ scanned_text' = clean_text(content)
    /\ result' = PdfLLM_extract_with_patterns(scanned_text')
    /\ strategy' = "patterns"
    /\ stage' = "extracted"
    /\ UNCHANGED <<file_type, content, ner_spans, client, reply, llm_outcome, recognizer, merged_entities>>
    /\ UNCHANGED exceptExtract

Extracted == stage = "extracted"

ValuesOf(m, t) == IF t \in DOMAIN m THEN Range(m[t]) ELSE {}

\* C2: the EntityMap a format path hands to its caller (DOCX, TXT after
\* post-processing, PDF without the text key) holds, for every type, no two
\* values that are equal once trimmed and lower-cased
C2_NoDuplicatesOnAnyPath == Extracted => Deduplicated(result)

\* C6: in the EntityMap of any format path (DOCX, TXT, PDF with the LLM,
\* PDF with the pattern fallback) every value of type isin is in the strict
\* format of 12 characters: 2 letters, 9 letters or digits, 1 digit
C6_FinalIsinFormat ==
    Extracted => \A v \in ValuesOf(result, "isin") : StrictIsinFormat(v)

ScenarioDocument ==
    [paragraphs |-> <<P_counterparty, P_notional, P_isin, P_coupon>>, tables |-> <<>>]

\* C7: the document of the four paragraphs "Counterparty: Goldman Sachs",
\* "Notional: 200 mio", "ISIN: US0378331005", "Coupon: 5%" and no table
\* parses to counterparty = ["Goldman Sachs"], notional = ["200 mio"] or
\* ["200"], isin = ["US0378331005"] and coupon = ["5%"]
C7_EndToEndScenario ==
    (Extracted /\ file_type = "docx" /\ content = ScenarioDocument) =>
        /\ {"counterparty", "notional", "isin", "coupon"} \subseteq DOMAIN result
        /\ result["counterparty"] = <<<<"G","o","l","d","m","a","n"," ","S","a","c","h","s">>>>
        /\ result["notional"] \in {<<<<"2","0","0"," ","m","i","o">>>>, <<<<"2","0","0">>>>}
        /\ result["isin"] = <<S_US0378331005>>
        /\ result["coupon"] = <<<<"5","%">>>>

\* C8: in the TXT path every merged counterparty value that is a key of the
\* abbreviation table in any casing is in the output as the expansion of the
\* key, and a value that is no key (and that the length filter and the case
\* normalization leave alone) is in the output unchanged
C8_AbbreviationExpansion ==
    (Extracted /\ file_type = "txt") =>
        \A v \in ValuesOf(merged_entities, "counterparty") :
            IF Upper(v) \in AbbreviationKeys
            THEN Expansion(Upper(v)) \in ValuesOf(result, "counterparty")
            ELSE (Len(v) >= MinValueLen /\ normalize_entity(v) = v)
                     => v \in ValuesOf(result, "counterparty")

NoEmptyType(m) == \A t \in DOMAIN m : m[t] # <<>>

\* the maps ChatNER.extract handed to its merge, the two set orders being
\* any: which lists are empty does not depend on them
MergeInputs ==
    ChatNER_extractor_outputs(scanned_text, ner_spans,
                              CHOOSE o \in FreqOrders(scanned_text) : TRUE,
                              CHOOSE o \in UnderlyingOrders(scanned_text) : TRUE)

\* C22 as stated: on the DOCX and the TXT path, neither the map returned by
\* the merge nor the final map returned by DocxParser.parse or
\* ChatNER.extract holds a type whose list of values is empty.
C22_EmptyTypesDroppedByMerge ==
    (Extracted /\ file_type \in {"docx", "txt"}) =>
        NoEmptyType(merged_entities) /\ NoEmptyType(result)

\* C22 amended: the final map of DocxParser.parse and of ChatNER.extract
\* holds no type with an empty list; the merge of DocxParser returns none
\* either, while the merge of ChatNER returns a type with an empty list
\* exactly when every list it was given for that type is empty.
C22_EmptyTypesDropped ==
    (Extracted /\ file_type \in {"docx", "txt"}) =>
        /\ NoEmptyType(result)
        /\ file_type = "docx" => NoEmptyType(merged_entities)
        /\ file_type = "txt" =>
              LET inputs == MergeInputs
              IN /\ DOMAIN merged_entities = AllTypes(inputs)
                 /\ \A t \in DOMAIN merged_entities :
                       merged_entities[t] = <<>> <=> ConcatValues(inputs, t) = <<>>

\* C22 witness: a chat was extracted whose merged map holds a type with an
\* empty list and a type whose values were all filtered out afterwards,
\* both absent from the final map, which is not empty.
C22_Witness ==
    /\ Extracted /\ file_type = "txt"
    /\ \E t \in DOMAIN merged_entities : merged_entities[t] = <<>> /\ t \notin DOMAIN result
    /\ \E t \in DOMAIN merged_entities : merged_entities[t] # <<>> /\ t \notin DOMAIN result
    /\ result # EmptyMap

\* the distinct values of matches, each at the place of its first occurrence
FirstOccurrences(matches) ==
    LET first(n) == \A k \in 1..(n - 1) : matches[k] # matches[n]
        kept == {n \in DOMAIN matches : first(n)}
        RECURSIVE from(_)
        from(n) == IF n > Len(matches) THEN <<>>
                   ELSE IF n \in kept THEN <<matches[n]>> \o from(n + 1)
                   ELSE from(n + 1)
    IN from(1)

\* what ChatNER.extract returns for the scanned text when the two lists of
\* _extract_chat_specific built with list(set(...)) come in the order of the
\* first occurrences in the text
FirstSeenResult ==
    LET underlying_matches == FindAll(underlying_pattern, scanned_text)
    IN ChatNER_post_process(ChatNER_merge_entities(
          ChatNER_extractor_outputs(
              scanned_text, ner_spans,
              FirstOccurrences(FindAll(freq_pattern, scanned_text)),
              FirstOccurrences([n \in DOMAIN underlying_matches |->
                                   Lower(underlying_matches[n])]))))

\* C27: in the TXT path ChatNER.extract returns for a text one map only,
\* whatever the run: the one in which the values of payment_frequency and
\* underlying stand in the order of their first occurrence in the text, a
\* payment frequency written in two casings keeping the first one.
C27_FirstSeenOrderInChat ==
    (Extracted /\ file_type = "txt") => result = FirstSeenResult

\* the paragraph is of the form "<keyword>: <value>" (or with '-') with a
\* keyword the key-value scanner knows
KeyValueParagraph(p) ==
    LinePair(p) # <<>> /\ KeyValueBranch(LinePair(p)[1]) # None

\* C28: in the DOCX path the key-value scanner takes each paragraph as a
\* line of its own: for a document of n paragraphs of the form
\* "<keyword>: <value>" it yields n candidates, the candidate of a paragraph
\* being the right-hand part of that paragraph alone, under the type of its
\* keyword.
C28_KeyValuePerLine ==
    (/\ Extracted /\ file_type = "docx"
     /\ content.paragraphs # <<>>
     /\ \A n \in DOMAIN content.paragraphs : KeyValueParagraph(content.paragraphs[n])) =>
        LET kv_entities == DocxParser_extract_key_value_pairs(scanned_text)
        IN /\ SumLen(kv_entities, DOMAIN kv_entities) = Len(content.paragraphs)
           /\ \A n \in DOMAIN content.paragraphs :
                 LET pair == LinePair(content.paragraphs[n])
                 IN pair[2] \in Range(kv_entities[KeyValueBranch(pair[1])])

\* ------------------------------------------------------------------------
\* Calls of DocumentClassifier.classify: the text is made of phrases, the
\* entity map is one of a few
\* ------------------------------------------------------------------------

MaxPhrases == 2

PhrasePool ==
    <<<<"T","e","r","m"," ","S","h","e","e","t">>, <<"t","r","a","d","e"," ","c","o","n","f","i","r","m","a","t","i","o","n">>, <<"[","0","9",":","3","0","]"," ","c","h","a","t">>, <<"C","o","u","p","o","n"," ","5","%">>, <<"s","e","l","l">>,
      <<"i","n","v","o","i","c","e"," ","#","1","2">>, <<"a","g","r","e","e","m","e","n","t">>, <<"h","e","l","l","o"," ","w","o","r","l","d">>, S_US0378331005>>

ClassifierTexts == {Join(ps, <<" ">>) : ps \in Picks(PhrasePool, MaxPhrases)}

\* EmptyMap stands for the entity map left out (None) and for {}
ClassifierEntityMaps ==
    {EmptyMap,
     [isin |-> <<S_US0378331005>>],
     [isin |-> <<>>],
     [trade_references |-> <<<<"T","R","-","1">>>>],
     [person |-> <<<<"B","o","b">>>>],
     [person |-> <<<<"B","o","b">>, <<"A","l","i","c","e">>>>],
     [coupon |-> <<<<"5","%">>>>],
     [coupon |-> <<<<"5","%">>>>, barrier |-> <<<<"7","0","%">>>>],
     [isin |-> <<S_US0378331005>>, trade_references |-> <<<<"T","R","-","1">>>>,
      person |-> <<<<"B","o","b">>, <<"A","l","i","c","e">>>>, coupon |-> <<<<"5","%">>>>, barrier |-> <<<<"7","0","%">>>>]}

ClassifyIdle ==
    /\ cls_text = None /\ cls_entities = None /\ classification = None
    /\ classifier_state = "idle" /\ cls_scores = None

ClassifyInit ==
    /\ cls_text \in ClassifierTexts
    /\ cls_entities \in ClassifierEntityMaps
    /\ classification = None
    /\ cls_scores = None
    /\ classifier_state = "called"

\* DocumentClassifier.classify; cls_scores is its local scores when the
\* winner is picked
Classify ==
    /\ classifier_state = "called"
    /\ cls_scores' = final_scores(cls_text, cls_entities)
    /\ classification' = classify(cls_text, cls_entities)
    /\ classifier_state' = "returned"
    /\ UNCHANGED <<cls_text, cls_entities>>
    /\ UNCHANGED exceptClassify

Classified == classifier_state = "returned"

UnknownResult == [document_type |-> Unknown, all_scores |-> <<>>]

\* no keyword of any category is in the lower-cased text and no pattern of
\* any category is found in it
NoHits(text) ==
    \A n \in DOMAIN categories :
        /\ \A k \in DOMAIN categories[n].keywords :
               ~Contains(Lower(text), categories[n].keywords[k])
        /\ \A k \in DOMAIN categories[n].patterns :
               ~Search(categories[n].patterns[k], Lower(text))

Filled(entities, t) == t \in DOMAIN entities /\ Len(entities[t]) > 0

\* one of the entity hints applies: a value of isin, a value of
\* trade_references, more than one person, or values of coupon and of barrier
Hinted(entities) ==
    \/ Filled(entities, "isin")
    \/ Filled(entities, "trade_references")
    \/ "person" \in DOMAIN entities /\ Len(entities["person"]) > 1
    \/ Filled(entities, "coupon") /\ Filled(entities, "barrier")

\* C9 as stated: for a text with no keyword and no pattern of any category
\* classify returns "Unknown" with an empty score table, whatever the
\* entity map passed with it
C9_UnknownForEveryEntityMap ==
    (Classified /\ NoHits(cls_text)) => classification = UnknownResult

\* C9: for a text with no keyword and no pattern of any category classify
\* returns "Unknown" with an empty score table exactly when no entity hint
\* applies to the entity map (it is left out, is empty, or holds no value of
\* isin, none of trade_references, at most one person and not both a coupon
\* and a barrier); with a hint the result is a category
C9_UnknownWithoutHint ==
    (Classified /\ NoHits(cls_text)) =>
        (classification = UnknownResult <=> ~Hinted(cls_entities))

C9_Witness ==
    /\ Classified /\ NoHits(cls_text) /\ cls_text # <<>>
    /\ "person" \in DOMAIN cls_entities /\ ~Hinted(cls_entities)
    /\ classification = UnknownResult

AllZero(scores) == \A c \in DOMAIN scores : scores[c] = Zero

\* C10: classify returns "Unknown" with an empty score table if and only if
\* the score of every category after the entity boosts is zero; otherwise
\* document_type is the formatted name of one of the 8 categories
C10_UnknownIffAllZero ==
    Classified =>
        LET scores == final_scores(cls_text, cls_entities)
        IN /\ Len(categories) = 8
           /\ classification.document_type = Unknown <=> AllZero(scores)
           /\ classification.all_scores = <<>> <=> AllZero(scores)
           /\ ~AllZero(scores) =>
                  \E n \in DOMAIN categories :
                      classification.document_type = format_category_name(CategoryNames[n])

C10_Witness ==
    /\ Classified /\ AllZero(final_scores(cls_text, cls_entities))
    /\ "isin" \in DOMAIN cls_entities /\ cls_text # <<>>
    /\ classification.document_type = Unknown /\ classification.all_scores = <<>>

\* the keywords of the n-th category that occur in the lower-cased text,
\* and its patterns found in it
KeywordHits(n, text) ==
    Cardinality({k \in DOMAIN categories[n].keywords :
                    Contains(Lower(text), categories[n].keywords[k])})

PatternHits(n, text) ==
    Cardinality({k \in DOMAIN categories[n].patterns :
                    Search(categories[n].patterns[k], Lower(text))})

\* the sum of the entity boosts of a category, in thousandths
BoostOf(category, entities) ==
    (IF category = <<"s","t","r","u","c","t","u","r","e","d","_","n","o","t","e">> /\ Filled(entities, "isin") THEN 500 ELSE 0)
    + (IF category = <<"t","r","a","d","e","_","c","o","n","f","i","r","m","a","t","i","o","n">> /\ Filled(entities, "isin") THEN 300 ELSE 0)
    + (IF category = <<"t","r","a","d","e","_","c","o","n","f","i","r","m","a","t","i","o","n">> /\ Filled(entities, "trade_references")
       THEN 600 ELSE 0)
    + (IF category = <<"t","r","a","d","i","n","g","_","c","h","a","t">> /\ "person" \in DOMAIN entities
          /\ Len(entities["person"]) > 1
       THEN 400 ELSE 0)
    + (IF category = <<"s","t","r","u","c","t","u","r","e","d","_","n","o","t","e">> /\ Filled(entities, "coupon")
          /\ Filled(entities, "barrier")
       THEN 600 ELSE 0)

\* the decimal value of the score of the n-th category, in thousandths
DecimalScore(n, text, entities) ==
    (KeywordHits(n, text) * 3 + PatternHits(n, text) * 5) * categories[n].weight
    + BoostOf(categories[n].name, entities)

\* C23 as stated: the score of every category is the decimal value
\* (keyword hits * 0.3 + pattern hits * 0.5) * weight plus its entity
\* boosts, that is the double nearest to it.
C23_ScoreExactDecimal ==
    Classified =>
        \A n \in DOMAIN categories :
            cls_scores[categories[n].name] = <<DecimalScore(n, cls_text, cls_entities), 0>>

\* C23 amended: the score of every category is the binary64 result of
\* (keyword hits * 0.3 + pattern hits * 0.5) * weight plus its entity
\* boosts: the double nearest to the decimal value or one of its two
\* neighbours. The boosts are those of the claim and go to no other
\* category; without an entity map there is none.
C23_ScoreFormula ==
    Classified =>
        \A n \in DOMAIN categories :
            /\ cls_scores[categories[n].name][1] = DecimalScore(n, cls_text, cls_entities)
            /\ cls_scores[categories[n].name][2] \in {-1, 0, 1}

\* C23 witness: a classification in which a category with keyword and
\* pattern hits and a weight below 1 was boosted, and another category was
\* scored by its boost alone.
C23_Witness ==
    /\ Classified
    /\ \E n \in DOMAIN categories :
          /\ KeywordHits(n, cls_text) > 0 /\ PatternHits(n, cls_text) > 0
          /\ categories[n].weight < 100
          /\ BoostOf(categories[n].name, cls_entities) > 0
    /\ \E n \in DOMAIN categories :
          /\ KeywordHits(n, cls_text) = 0 /\ PatternHits(n, cls_text) = 0
          /\ cls_scores[categories[n].name][1] = BoostOf(categories[n].name, cls_entities)
          /\ BoostOf(categories[n].name, cls_entities) > 0

\* the categories in the insertion order of the table, and their names as
\* a result shows them
TableOrder ==
    <<<<"t","e","r","m","_","s","h","e","e","t">>, <<"t","r","a","d","e","_","c","o","n","f","i","r","m","a","t","i","o","n">>, <<"t","r","a","d","i","n","g","_","c","h","a","t">>, <<"s","t","r","u","c","t","u","r","e","d","_","n","o","t","e">>,
      <<"c","o","n","t","r","a","c","t">>, <<"i","n","v","o","i","c","e">>, <<"r","e","s","e","a","r","c","h","_","r","e","p","o","r","t">>, <<"g","e","n","e","r","a","l","_","f","i","n","a","n","c","i","a","l">>>>

DisplayNames ==
    <<<<"T","e","r","m"," ","S","h","e","e","t">>, <<"T","r","a","d","e"," ","C","o","n","f","i","r","m","a","t","i","o","n">>, <<"T","r","a","d","i","n","g"," ","C","h","a","t">>, <<"S","t","r","u","c","t","u","r","e","d"," ","N","o","t","e">>,
      <<"C","o","n","t","r","a","c","t">>, <<"I","n","v","o","i","c","e">>, <<"R","e","s","e","a","r","c","h"," ","R","e","p","o","r","t">>, <<"G","e","n","e","r","a","l"," ","F","i","n","a","n","c","i","a","l">>>>

NotUnknown == Classified /\ classification.document_type # Unknown

\* no category scores more than the n-th
Greatest(n) == \A m \in DOMAIN TableOrder : ~Less(cls_scores[TableOrder[n]], cls_scores[TableOrder[m]])

\* C24: when the maximum score is not zero, document_type names the
\* category with the greatest score, and of the categories sharing the
\* greatest score the first one in the insertion order of the table.
C24_StableTieBreak ==
    (Classified /\ ~AllZero(cls_scores)) =>
        \E n \in DOMAIN TableOrder :
            /\ classification.document_type = DisplayNames[n]
            /\ Greatest(n)
            /\ \A m \in 1..(n - 1) : cls_scores[TableOrder[m]] # cls_scores[TableOrder[n]]

\* C24 witness: two categories share the greatest score, which is not zero,
\* and the result names the first of them.
C24_Witness ==
    /\ Classified /\ ~AllZero(cls_scores)
    /\ \E n, m \in DOMAIN TableOrder :
          /\ n < m /\ Greatest(n) /\ Greatest(m)
          /\ classification.document_type = DisplayNames[n]

\* the category the k-th line of the score table names; 0 when it names none
Listed(k) ==
    IF \E n \in DOMAIN DisplayNames : DisplayNames[n] = classification.all_scores[k].name
    THEN CHOOSE n \in DOMAIN DisplayNames : DisplayNames[n] = classification.all_scores[k].name
    ELSE 0

\* h hundredths is a hundredth nearest to the score: when the decimal value
\* is half way between two hundredths, the side of it on which the double
\* lies decides
NearestHundredth(h, score) ==
    LET twice == 2 * (10 * h - score[1])
        side == IF score[2] # 0 THEN score[2] ELSE NearestSide(score[1])
    IN /\ -10 <= twice /\ twice <= 10
       /\ twice = 10 => side >= 0
       /\ twice = -10 => side <= 0

\* C25: a result that is not "Unknown" has a score table of exactly 3
\* lines, each naming a category by its display name with its score rounded
\* to 2 decimals; the lines are in descending order of score, equal scores
\* in the insertion order of the table; the first line is the winner named
\* in document_type, and no category left out scores more than a listed one.
C25_ScoreTable ==
    NotUnknown =>
        LET table == classification.all_scores
        IN /\ Len(table) = 3
           /\ \A k \in DOMAIN table :
                 /\ Listed(k) > 0
                 /\ NearestHundredth(table[k].score, cls_scores[TableOrder[Listed(k)]])
           /\ \A k, l \in DOMAIN table :
                 k < l =>
                     LET a == cls_scores[TableOrder[Listed(k)]]
                         b == cls_scores[TableOrder[Listed(l)]]
                     IN Less(b, a) \/ (a = b /\ Listed(k) < Listed(l))
           /\ table[1].name = classification.document_type
           /\ \A n \in DOMAIN TableOrder :
                 (\A k \in DOMAIN table : Listed(k) # n) =>
                     \A k \in DOMAIN table :
                         ~Less(cls_scores[TableOrder[Listed(k)]], cls_scores[TableOrder[n]])

\* C25 witness: a score table with two lines of equal score that is not
\* zero, and a line whose score had to be rounded.
C25_Witness ==
    /\ NotUnknown
    /\ \E k \in 1..2 :
          /\ cls_scores[TableOrder[Listed(k)]] = cls_scores[TableOrder[Listed(k + 1)]]
          /\ cls_scores[TableOrder[Listed(k)]] # Zero
    /\ \E k \in 1..3 : cls_scores[TableOrder[Listed(k)]][1] # 10 * classification.all_scores[k].score

\* ------------------------------------------------------------------------
\* Calls of classify one after the other on one DocumentClassifier instance
\* ------------------------------------------------------------------------

MaxCalls == 3

RepeatTexts == {<<"h","e","l","l","o"," ","w","o","r","l","d">>, <<"C","o","u","p","o","n"," ","5","%">>, <<"[","0","9",":","3","0","]"," ","c","h","a","t"," ","i","n","v","o","i","c","e"," ","#","1","2">>}

RepeatEntityMaps == {EmptyMap, [isin |-> <<S_US0378331005>>]}

\* a call that takes a key out of the map it is passed, as dict.pop does
ClassifyCallPopping(instance, text, entities) ==
    [classification |-> classify(text, entities),
     categories |-> instance,
     entities |-> [t \in DOMAIN entities \ {"isin"} |-> entities[t]]]

\* what a call of classify returns and what it leaves of the objects it
\* works on: classify and _adjust_with_entities assign to the local scores
\* only, never to self.categories or to entities
ClassifyCall(instance, text, entities) ==
    [classification |-> classify(text, entities),
     categories |-> instance,
     entities |-> entities]

InstanceIdle == instance_categories = None /\ call_log = <<>>

\* DocumentClassifier.__init__
InstanceInit == instance_categories = categories /\ call_log = <<>>

\* the entity map the caller holds for a map it started with: a map a call
\* has changed is what the caller passes from then on
HeldNow(held) ==
    IF \E n \in DOMAIN call_log : call_log[n].held = held
    THEN call_log[Max({n \in DOMAIN call_log : call_log[n].held = held})].left
    ELSE held

\* the call is logged and the instance is as the call left it
Called(text, held, call) ==
    /\ call_log' = Append(call_log, [text |-> text, held |-> held, left |-> call.entities,
                                       classification |-> call.classification])
    /\ instance_categories' = call.categories

\* DocumentClassifier.classify, called with the entity map the caller holds
ClassifyAgain ==
    /\ Len(call_log) < MaxCalls
    /\ \E text \in RepeatTexts, held \in RepeatEntityMaps :
           Called(text, held, ClassifyCall(instance_categories, text, HeldNow(held)))
    /\ UNCHANGED exceptInstance

Get(d, key, default) == IF key \in DOMAIN d THEN d[key] ELSE default

\* standardization that leaves out the values that are blank
RECURSIVE standardize_entities_no_blank(_)
standardize_entities_no_blank(items) ==
    IF items = <<>> THEN <<>>
    ELSE LET entity_type == Head(items)[1]
             values == SelectSeq(Head(items)[2], LAMBDA v : Strip(v) # <<>>)
         IN [n \in DOMAIN values |-> [type |-> entity_type, value |-> Strip(values[n])]]
            \o standardize_entities_no_blank(Tail(items))

\* the values of the map are lists of strings: str(value) is the value
RECURSIVE standardize_entities(_)
standardize_entities(items) ==
    IF items = <<>> THEN <<>>
    ELSE LET entity_type == Head(items)[1]
             values == Head(items)[2]
         IN [n \in DOMAIN values |-> [type |-> entity_type, value |-> Strip(values[n])]]
            \o standardize_entities(Tail(items))

calculate_stats(entities) ==
    [total_entities |-> Len(entities),
     entity_types |->
        [t \in {entities[n].type : n \in DOMAIN entities} |->
            Cardinality({n \in DOMAIN entities : entities[n].type = t})]]

\* now stands for datetime.utcnow().isoformat()
format(raw_result, filename, now) ==
    LET entities == Get(raw_result, "entities", <<>>)
        formatted_entities == standardize_entities(entities)
        stats == calculate_stats(formatted_entities)
    IN [success |-> TRUE,
        metadata |-> [filename |-> filename,
                      file_type |-> Get(raw_result, "file_type", None),
                      extraction_method |-> Get(raw_result, "method", None),
                      processed_at |-> now,
                      entity_count |-> stats.total_entities],
        classification |-> Get(raw_result, "classification", <<>>),
        summary |-> Get(raw_result, "summary", <<>>),
        topics |-> Get(raw_result, "topics", <<>>),
        entities |-> formatted_entities,
        statistics |-> stats]

\* ------------------------------------------------------------------------
\* Calls of EntityFormatter.format
\* ------------------------------------------------------------------------

MaxFormatValues == 2

FormatTypes == {"counterparty", "isin"}

FormatValuePool == {S_GS, S_gs, <<>>}

FormatValueLists == SeqsUpTo(FormatValuePool, MaxFormatValues)

\* the items of an entity map: each type at most once, in any order
FormatEntityItems ==
    {items \in SeqsUpTo(FormatTypes \X FormatValueLists, Cardinality(FormatTypes)) :
        \A i, j \in DOMAIN items : i # j => items[i][1] # items[j][1]}

RawResults ==
    {[file_type |-> "txt", method |-> "ner-model"]}
        \cup {[entities |-> items, file_type |-> "docx", method |-> "rule-based"] :
                 items \in FormatEntityItems}

Clock == {1, 2}

CallIdle ==
    callee = None /\ call_args = None /\ call_result = None /\ call_stage = "idle"

FormatInit ==
    /\ callee = "EntityFormatter.format"
    /\ call_args \in {<<raw_result, <<"a",".","d","o","c","x">>>> : raw_result \in RawResults}
    /\ call_result = None
    /\ call_stage = "called"

\* EntityFormatter.format
Format ==
    /\ callee = "EntityFormatter.format" /\ call_stage = "called"
    /\ \E now \in Clock : call_result' = format(call_args[1], call_args[2], now)
    /\ call_stage' = "returned"
    /\ UNCHANGED <<callee, call_args>>
    /\ UNCHANGED exceptCall

Formatted == callee = "EntityFormatter.format" /\ call_stage = "returned"

\* the number of values of the items before the i-th
RECURSIVE ValuesBefore(_, _)
ValuesBefore(items, i) ==
    IF i = 1 THEN 0 ELSE ValuesBefore(items, i - 1) + Len(items[i - 1][2])

RECURSIVE SumOver(_, _)
SumOver(f, S) ==
    IF S = {} THEN 0 ELSE LET x == CHOOSE y \in S : TRUE IN f[x] + SumOver(f, S \ {x})

\* C12: format gives exactly one {type, value} record for each value of the
\* entity map, in the order of the types of the map and of the values of
\* each type, none left out (the value of the record is the trimmed value);
\* statistics.total_entities is the number of records, the sum of the counts
\* of statistics.entity_types, and metadata.entity_count
C12_FlatteningAndStatistics ==
    Formatted =>
        LET items == Get(call_args[1], "entities", <<>>)
            records == call_result.entities
            stats == call_result.statistics
        IN /\ Len(records) = ValuesBefore(items, Len(items) + 1)
           /\ \A i \in DOMAIN items : \A j \in DOMAIN items[i][2] :
                  records[ValuesBefore(items, i) + j] =
                      [type |-> items[i][1], value |-> Strip(items[i][2][j])]
           /\ stats.total_entities = Len(records)
           /\ stats.total_entities = SumOver(stats.entity_types, DOMAIN stats.entity_types)
           /\ stats.total_entities = call_result.metadata.entity_count

C12_Witness ==
    /\ Formatted
    /\ Len(Get(call_args[1], "entities", <<>>)) = 2
    /\ Len(call_result.entities) = 4
    /\ \E n \in DOMAIN call_result.entities : call_result.entities[n].value = <<>>
    /\ call_result.entities[1].type = "isin" /\ call_result.entities[4].type = "counterparty"

\* ---- LLM unavailability on the PDF path ----

\* the client was never constructed, or the try block of _extract_with_llm raises
LlmUnavailable == ~client \/ llm_outcome \in {"raises", "no_content"}

\* C14: on the PDF path, when text was read and the LLM client is absent or the
\* call or the parsing of its reply raises, every step of PdfLLM.extract ends
\* with the entity map of the pattern library over that same text, and never
\* with a failure
C14_LlmFallback ==
    [][(stage = "received" /\ file_type = "pdf" /\ clean_text(content) # <<>> /\ LlmUnavailable)
         => /\ stage' = "extracted"
            /\ strategy' = "patterns"
            /\ scanned_text' = clean_text(content)
            /\ LET found == extract_all(clean_text(content))
               IN result' = [t \in {u \in DOMAIN found : found[u] # <<>>} |-> found[t]]]_vars

\* a PDF with a client whose reply has no content, answered from the patterns
\* with at least one entity
C14_Witness ==
    /\ Extracted /\ file_type = "pdf" /\ client /\ llm_outcome = "no_content"
    /\ strategy = "patterns" /\ "isin" \in DOMAIN result

\* ---- recognizer unavailability on the TXT path ----

\* C15: on the TXT path, when the recognizer model cannot be loaded or its
\* call raises, every step of ChatNER() and ChatNER.extract ends with the
\* entities of the pattern library and of the chat-specific regexes: the
\* failure does not reach the caller
C15_RecognizerFallback ==
    [][(stage = "received" /\ file_type = "txt" /\ recognizer \in {"unloadable", "raises"})
         => /\ stage' = "extracted"
            /\ \E freq_order \in FreqOrders(clean_text(content)),
                  underlying_order \in UnderlyingOrders(clean_text(content)) :
                  result' = ChatNER_post_process(ChatNER_merge_entities(
                      ChatNER_extractor_outputs(clean_text(content), <<>>, freq_order,
                                                underlying_order)))]_vars

\* ---- calls of PdfLLM._parse_llm_response ----

MaxResponseLines == 2

ResponseLinePool ==
    {<<"C","O","U","N","T","E","R","P","A","R","T","Y",":"," ","G","o","l","d","m","a","n"," ","S","a","c","h","s">>, <<" ","I","s","s","u","e","r"," ",":"," ","g","s"," ">>, <<"I","S","I","N",":"," ","N","/","A">>, <<"i","s","i","n",":","U","S","0","3","7","8","3","3","1","0","0","5">>,
     <<"M","a","t","u","r","i","t","y",":"," ","1","2",":","3","0">>, <<"C","o","u","p","o","n",":">>, <<"n","o"," ","c","o","l","o","n"," ","h","e","r","e">>, <<"L","a","b","e","l",":"," ","x">>, <<"i","s","s","u","e","r",":"," ","N","o","t"," ","F","o","u","n","d">>,
     <<>>}

ResponseLines == SeqsUpTo(ResponseLinePool, MaxResponseLines)

ParseInit ==
    /\ callee = "PdfLLM._parse_llm_response"
    /\ call_args \in {<<lines>> : lines \in ResponseLines}
    /\ call_result = None
    /\ call_stage = "called"

\* PdfLLM._parse_llm_response on the response text made of the lines
ParseResponse ==
    /\ callee = "PdfLLM._parse_llm_response" /\ call_stage = "called"
    /\ call_result' = PdfLLM_parse_llm_response(Join(call_args[1], <<"\n">>))
    /\ call_stage' = "returned"
    /\ UNCHANGED <<callee, call_args>>
    /\ UNCHANGED exceptCall

Parsed == callee = "PdfLLM._parse_llm_response" /\ call_stage = "returned"

\* the line has a ':' whose left side, trimmed and lower-cased, is an alias of
\* type t and whose right side, trimmed and lower-cased, is no sentinel
AddsTo(line, t) ==
    \E i \in DOMAIN line :
        /\ line[i] = ":" /\ \A j \in 1..(i - 1) : line[j] # ":"
        /\ AliasType(Lower(Strip(SubSeq(line, 1, i - 1)))) = t
        /\ Lower(Strip(SubSeq(line, i + 1, Len(line)))) \notin Sentinels

\* what follows the first ':' of the line, trimmed
ValueOfLine(line) ==
    LET i == CHOOSE k \in DOMAIN line : line[k] = ":" /\ \A j \in 1..(k - 1) : line[j] # ":"
    IN Strip(SubSeq(line, i + 1, Len(line)))

ExpectedValues(lines, t) ==
    LET adding == SelectSeq(lines, LAMBDA line : AddsTo(line, t))
    IN [n \in DOMAIN adding |-> ValueOfLine(adding[n])]

\* C16: for every sequence of response lines _parse_llm_response returns;
\* the values of each type are, in line order, the trimmed values of exactly
\* the lines with a ':' , an alias of the type as key and a value that is no
\* sentinel in any casing; every other line adds nothing, no other type
\* appears, and no value is a sentinel
C16_DefensiveParsing ==
    Parsed =>
        /\ DOMAIN call_result \subseteq LlmTypes
        /\ \A t \in LlmTypes :
               (IF t \in DOMAIN call_result THEN call_result[t] ELSE <<>>)
                   = ExpectedValues(call_args[1], t)
        /\ \A t \in DOMAIN call_result : \A n \in DOMAIN call_result[t] :
               Lower(call_result[t][n]) \notin Sentinels

\* a response with two aliases of one type, a sentinel in upper case and a
\* value holding a ':'
C16_Witness ==
    /\ Parsed
    /\ \/ /\ call_args[1] = <<<<" ","I","s","s","u","e","r"," ",":"," ","g","s"," ">>, <<"C","O","U","N","T","E","R","P","A","R","T","Y",":"," ","G","o","l","d","m","a","n"," ","S","a","c","h","s">>>>
          /\ call_result = [counterparty |-> <<<<"g","s">>, <<"G","o","l","d","m","a","n"," ","S","a","c","h","s">>>>]
       \/ /\ call_args[1] = <<<<"I","S","I","N",":"," ","N","/","A">>, <<"M","a","t","u","r","i","t","y",":"," ","1","2",":","3","0">>>>
          /\ call_result = [maturity |-> <<<<"1","2",":","3","0">>>>]

\* ------------------------------------------------------------------------
\* entry paths: POST /api/v1/extract (api/endpoints.py) and
\* DocumentRouter.route (services/document_router.py)
\* ------------------------------------------------------------------------

EntryIdle ==
    /\ entry_point = "none" /\ size_mb = 0 /\ pc = "idle" /\ invoked = <<>>
    /\ status = "none" /\ extraction_method = "none"

\* the default max_size_mb of FileHandler.validate_file_size
MaxSizeMb == 50

\* FileHandler.validate_file_size, on the size of the content in megabytes
validate_file_size(size) == size <= MaxSizeMb

SizesMb == {1, MaxSizeMb, MaxSizeMb + 1}

EntryDocuments ==
    {ScenarioDocument, [paragraphs |-> <<>>, tables |-> <<>>]}

EntryChats == {<<TokenPool[1]>>, <<TokenPool[10]>>}

EntryReplies == {<<"I","S","I","N",":"," ","U","S","0","3","7","8","3","3","1","0","0","5">>, <<"H","e","r","e"," ","i","s"," ","w","h","a","t"," ","I"," ","f","o","u","n","d">>}

\* the uploaded file (its type as the entry path sees it, its content), the
\* collaborators the extractors will meet, nothing invoked yet
Uploaded ==
    /\ stage = "idle" /\ merged_entities = None /\ result = None
    /\ scanned_text = None /\ strategy = None

DocxUpload ==
    /\ file_type = "docx" /\ content \in EntryDocuments
    /\ ner_spans = None /\ client = FALSE /\ reply = None /\ llm_outcome = "none"
    /\ recognizer = "none"

TxtUpload ==
    /\ file_type = "txt"
    /\ \E toks \in EntryChats :
          /\ content = ChatText(toks)
          /\ \/ recognizer = "loaded" /\ ner_spans = ChatSpans(toks)
             \/ recognizer \in {"unloadable", "raises"} /\ ner_spans = None
    /\ client = FALSE /\ reply = None /\ llm_outcome = "none"

PdfUpload ==
    /\ file_type = "pdf" /\ content \in PdfTexts
    /\ ner_spans = None /\ client \in BOOLEAN
    /\ \/ ~client /\ reply = None /\ llm_outcome = "none"
       \/ client /\ reply = None /\ llm_outcome \in {"raises", "no_content"}
       \/ client /\ reply \in EntryReplies /\ llm_outcome = "text"
    /\ recognizer = "none"

\* a file that is none of DOCX, TXT, PDF: no such extension (endpoint), no
\* such extension and no such MIME type (FileHandler.detect_file_type)
OtherUpload ==
    /\ file_type = "unknown" /\ content \in {<<>>, <<"G","I","F","8","9","a">>}
    /\ ner_spans = None /\ client = FALSE /\ reply = None /\ llm_outcome = "none"
    /\ recognizer = "none"

EntryInit ==
    /\ entry_point \in {"endpoint", "router"}
    /\ size_mb \in SizesMb
    /\ pc = "start" /\ invoked = <<>> /\ status = "none" /\ extraction_method = "none"
    /\ DocxUpload \/ TxtUpload \/ PdfUpload \/ OtherUpload
    /\ Uploaded

\* the extractor of a supported type
ExtractorOf(type) ==
    CASE type = "docx" -> "DocxParser"
      [] type = "txt" -> "ChatNER"
      [] type = "pdf" -> "PdfLLM"

\* extract_entities as it would be without "except HTTPException: raise"
EndpointDispatchRewriting ==
    /\ entry_point = "endpoint" /\ pc = "start"
    /\ IF file_type = "unknown"
       THEN /\ status' = "HTTP 500" /\ pc' = "done"
            /\ UNCHANGED <<invoked, stage>>
       ELSE /\ invoked' = Append(invoked, ExtractorOf(file_type))
            /\ stage' = "received" /\ pc' = "extracting"
            /\ UNCHANGED status
    /\ UNCHANGED <<entry_point, size_mb, extraction_method>>
    /\ UNCHANGED <<file_type, content, ner_spans, client, reply, llm_outcome, recognizer,
                   merged_entities, result, scanned_text, strategy>>
    /\ UNCHANGED exceptEntryAndExtract

\* extract_entities up to the call of the extractor: the branch on the
\* extension of the file name; the size of the content is not looked at
EndpointDispatch ==
    /\ entry_point = "endpoint" /\ pc = "start"
    /\ IF file_type = "unknown"
       THEN /\ status' = "HTTP 400" /\ pc' = "done"
            /\ UNCHANGED <<invoked, stage>>
       ELSE /\ invoked' = Append(invoked, ExtractorOf(file_type))
            /\ stage' = "received" /\ pc' = "extracting"
            /\ UNCHANGED status
    /\ UNCHANGED <<entry_point, size_mb, extraction_method>>
    /\ UNCHANGED <<file_type, content, ner_spans, client, reply, llm_outcome, recognizer,
                   merged_entities, result, scanned_text, strategy>>
    /\ UNCHANGED exceptEntryAndExtract

\* the tag extract_entities sets next to the call of each extractor
EndpointMethod(type) ==
    CASE type = "docx" -> "rule-based"
      [] type = "txt" -> "ner-model"
      [] type = "pdf" -> "llm-extraction"

\* extract_entities after the extractor: an exception of the extractor
\* becomes the 500 answer; else the classifier, the summarizer, the topic
\* modeller and the formatter run and the report carries the tag
EndpointReport ==
    /\ entry_point = "endpoint" /\ pc = "extracting"
    /\ stage \in {"extracted", "failed"}
    /\ IF stage = "failed"
       THEN status' = "HTTP 500" /\ UNCHANGED <<invoked, extraction_method>>
       ELSE /\ invoked' = invoked \o <<"DocumentClassifier", "DocumentSummarizer",
                                        "TopicModeller", "EntityFormatter">>
            /\ extraction_method' = EndpointMethod(file_type)
            /\ status' = "HTTP 200"
    /\ pc' = "done"
    /\ UNCHANGED <<entry_point, size_mb>>
    /\ UNCHANGED extractVars
    /\ UNCHANGED exceptEntryAndExtract

\* DocumentRouter.route up to the call of the extractor: the size check, then
\* the branch on the detected type
RouterDispatch ==
    /\ entry_point = "router" /\ pc = "start"
    /\ IF ~validate_file_size(size_mb) \/ file_type = "unknown"
       THEN /\ status' = "raised ValueError" /\ pc' = "done"
            /\ UNCHANGED <<invoked, stage>>
       ELSE /\ invoked' = Append(invoked, ExtractorOf(file_type))
            /\ stage' = "received" /\ pc' = "extracting"
            /\ UNCHANGED status
    /\ UNCHANGED <<entry_point, size_mb, extraction_method>>
    /\ UNCHANGED <<file_type, content, ner_spans, client, reply, llm_outcome, recognizer,
                   merged_entities, result, scanned_text, strategy>>
    /\ UNCHANGED exceptEntryAndExtract

\* the 'method' of _process_docx, _process_chat and _process_pdf
RouterMethod(type) ==
    CASE type = "docx" -> "rule-based"
      [] type = "txt" -> "ner_model"
      [] type = "pdf" -> "llm_rag"

\* _process_docx, _process_chat, _process_pdf after the extractor
RouterReturn ==
    /\ entry_point = "router" /\ pc = "extracting"
    /\ stage \in {"extracted", "failed"}
    /\ IF stage = "failed"
       THEN status' = "raised" /\ UNCHANGED extraction_method
       ELSE extraction_method' = RouterMethod(file_type) /\ status' = "returned"
    /\ pc' = "done"
    /\ UNCHANGED <<entry_point, size_mb, invoked>>
    /\ UNCHANGED extractVars
    /\ UNCHANGED exceptEntryAndExtract

Reported == pc = "done" /\ status \in {"HTTP 200", "returned"}

\* C13: the method tag of a report names the strategy that produced the
\* entities: a PDF answered by the pattern fallback (client absent, or the
\* LLM call raising) is not tagged as LLM extraction, and every tag of every
\* routing path is one of rule-based, ner-model, llm-extraction
C13_MethodTagReflectsStrategy ==
    Reported =>
        /\ (file_type = "pdf" /\ strategy = "patterns")
              => extraction_method \notin {"llm-extraction", "llm_rag"}
        /\ extraction_method \in {"rule-based", "ner-model", "llm-extraction"}

\* C17: on both entry paths an input over the maximum size is rejected
\* before any extractor, classifier, summarizer or formatter runs
C17_SizeValidationFirst ==
    size_mb > MaxSizeMb => invoked = <<>> /\ stage = "idle" /\ status \notin {"HTTP 200", "returned"}

\* C18: for a file that is none of DOCX, TXT, PDF no extractor, classifier,
\* summarizer, topic modeller or formatter is ever invoked; the endpoint
\* answers 400, not 500, and DocumentRouter.route raises
C18_UnsupportedIsFatal ==
    file_type = "unknown" =>
        /\ invoked = <<>> /\ stage = "idle" /\ extraction_method = "none"
        /\ pc \in {"start", "done"}
        /\ pc = "done" =>
              /\ entry_point = "endpoint" => status = "HTTP 400"
              /\ entry_point = "router" => status = "raised ValueError"

\* the endpoint has answered a file of another type
C18_Witness ==
    /\ file_type = "unknown" /\ entry_point = "endpoint" /\ pc = "done"
    /\ status = "HTTP 400" /\ invoked = <<>>

\* ------------------------------------------------------------------------
\* SpacyNERPipeline._get_confidence (nlp/spacy_pipeline.py)
\* ------------------------------------------------------------------------

\* A confidence is a binary64 number, written <<h, d>>: the double nearest to
\* h hundredths, moved by d units in the last place.

\* confidence_map, in hundredths
confidence_map ==
    [ORG |-> 85, PERSON |-> 80, MONEY |-> 90, DATE |-> 85, PERCENT |-> 88,
     CARDINAL |-> 75, GPE |-> 82, PRODUCT |-> 78]

DefaultConfidence == 70

LongTextLength == 15

LongTextBonus == 5

ShortTextLength == 3

ShortTextPenalty == 10

ConfidenceFloor == 50

ConfidenceCeiling == 95

\* the sums and differences of two of these doubles that are one unit in the
\* last place above the double nearest to the decimal result:
\* 0.80 + 0.05, 0.80 - 0.10, 0.90 + 0.05, 0.78 + 0.05
AdjustedAbove == {<<80, 5>>, <<80, -10>>, <<90, 5>>, <<78, 5>>}

\* base_confidence += 0.05, base_confidence -= 0.10
Adjusted(base, by) == <<base + by, IF <<base, by>> \in AdjustedAbove THEN 1 ELSE 0>>

\* the heuristic as it would be with the two length tests exchanged
get_confidence_swapped(label, length) ==
    LET base == IF label \in DOMAIN confidence_map THEN confidence_map[label]
                ELSE DefaultConfidence
        base_confidence ==
            IF length < ShortTextLength THEN Adjusted(base, LongTextBonus)
            ELSE IF length > LongTextLength THEN Adjusted(base, -ShortTextPenalty)
            ELSE <<base, 0>>
        floored == IF Less(<<ConfidenceFloor, 0>>, base_confidence) THEN base_confidence
                   ELSE <<ConfidenceFloor, 0>>
    IN IF Less(floored, <<ConfidenceCeiling, 0>>) THEN floored ELSE <<ConfidenceCeiling, 0>>

\* _get_confidence of a span with that label and that length of text
get_confidence(label, length) ==
    LET base == IF label \in DOMAIN confidence_map THEN confidence_map[label]
                ELSE DefaultConfidence
        base_confidence ==
            IF length > LongTextLength THEN Adjusted(base, LongTextBonus)
            ELSE IF length < ShortTextLength THEN Adjusted(base, -ShortTextPenalty)
            ELSE <<base, 0>>
        floored == IF Less(<<ConfidenceFloor, 0>>, base_confidence) THEN base_confidence
                   ELSE <<ConfidenceFloor, 0>>
    IN IF Less(floored, <<ConfidenceCeiling, 0>>) THEN floored ELSE <<ConfidenceCeiling, 0>>

MaxSpanLength == 20

SpanLabels ==
    {"ORG", "PERSON", "MONEY", "DATE", "PERCENT", "CARDINAL", "GPE", "PRODUCT", "LAW", "NORP"}

ConfidenceInit ==
    /\ callee = "SpacyNERPipeline._get_confidence"
    /\ call_args \in {<<label, length>> : label \in SpanLabels, length \in 1..MaxSpanLength}
    /\ call_result = None
    /\ call_stage = "called"

\* SpacyNERPipeline._get_confidence
GetConfidence ==
    /\ callee = "SpacyNERPipeline._get_confidence" /\ call_stage = "called"
    /\ call_result' = get_confidence(call_args[1], call_args[2])
    /\ call_stage' = "returned"
    /\ UNCHANGED <<callee, call_args>>
    /\ UNCHANGED exceptCall

Scored == callee = "SpacyNERPipeline._get_confidence" /\ call_stage = "returned"

\* the decimal value the heuristic stands for, in hundredths
DecimalConfidence(label, length) ==
    LET base == IF label \in DOMAIN confidence_map THEN confidence_map[label] ELSE 70
        moved == IF length > 15 THEN base + 5 ELSE IF length < 3 THEN base - 10 ELSE base
    IN IF moved > 95 THEN 95 ELSE IF moved < 50 THEN 50 ELSE moved

\* C20 as stated: the confidence is exactly the base score of the label, plus
\* 0.05 for a text longer than 15, minus 0.10 for a text shorter than 3,
\* clamped to [0.50, 0.95]
C20_ConfidenceExactDecimal ==
    Scored => call_result = <<DecimalConfidence(call_args[1], call_args[2]), 0>>

\* C20: the confidence is that decimal value up to the rounding of the
\* binary64 sum: it is the nearest double itself except for PERSON with a
\* text longer than 15 or shorter than 3 and PRODUCT with a text longer than
\* 15, where it is one unit in the last place above; an ORG span of length 20
\* scores exactly 0.90, a span of an unseen label and length 2 exactly 0.60,
\* and every confidence lies in [0.50, 0.95]
C20_ConfidenceHeuristic ==
    Scored =>
        LET label == call_args[1]
            length == call_args[2]
            off == \/ label = "PERSON" /\ (length > 15 \/ length < 3)
                   \/ label = "PRODUCT" /\ length > 15
        IN /\ call_result[1] = DecimalConfidence(label, length)
           /\ call_result[2] = (IF off THEN 1 ELSE 0)
           /\ (label = "ORG" /\ length = 20) => call_result = <<90, 0>>
           /\ (label \notin DOMAIN confidence_map /\ length = 2) => call_result = <<60, 0>>
           /\ ~Less(call_result, <<50, 0>>) /\ ~Less(<<95, 0>>, call_result)

\* an ORG span of length 20, and a MONEY span of length 20 whose sum is cut
\* back to the ceiling
C20_Witness ==
    /\ Scored
    /\ \/ call_args = <<"ORG", 20>> /\ call_result = <<90, 0>>
       \/ call_args = <<"MONEY", 20>> /\ call_result = <<95, 0>>

\* ------------------------------------------------------------------------
\* Q&A sessions (api/qa_endpoints.py, services/document_qa.py)
\* ------------------------------------------------------------------------

\* Every handler of qa_endpoints.py is a coroutine without an await: the event
\* loop runs each request to its end before the next, so a step is a request.
\* qa_sessions is the module-level dict. solo_sessions[s] is the dict as it
\* would be had only the requests on session id s been served, and
\* solo_response the answer the last request would have got from it.

QaIdle ==
    /\ qa_sessions = None /\ solo_sessions = None /\ qa_request = None
    /\ qa_response = None /\ solo_response = None /\ qa_payload = None
    /\ qa_dropped = None

ConvIdle ==
    /\ conv_qa = None /\ conv_asked = None /\ conv_copy = None
    /\ conv_call = None /\ conv_results = None

SessionIds == {"A", "B"}

\* the document_text[:4000] of ask_question
ContextLimit == 4000

MinSentenceLen == 10

MinOverlap == 2

MaxSources == 3

MaxSuggestions == 5

\* set(s.split()) of str.split without arguments
WordSet(s) ==
    LET starts == {i \in DOMAIN s : s[i] \notin Whitespace /\ (i = 1 \/ s[i - 1] \in Whitespace)}
        ends == {j \in DOMAIN s : s[j] \notin Whitespace /\ (j = Len(s) \/ s[j + 1] \in Whitespace)}
    IN {SubSeq(s, i, Min({j \in ends : j >= i})) : i \in starts}

\* DocumentQA._extract_relevant_sections
extract_relevant_sections(question, context) ==
    LET sentences == Split(context, ".")
        question_words == WordSet(Lower(question))
        stripped == [n \in DOMAIN sentences |-> Strip(sentences[n])]
        relevant == SelectSeq(stripped, LAMBDA sentence :
                        /\ Len(sentence) >= MinSentenceLen
                        /\ Cardinality(question_words \cap WordSet(Lower(sentence)))
                               >= MinOverlap)
        closed == [n \in DOMAIN relevant |-> relevant[n] \o <<".">>]
    IN SubSeq(closed, 1, Min({Len(closed), MaxSources}))

\* DocumentQA.__init__ with the outcome of _initialize_llm
DocumentQA(client_ok) ==
    [client |-> client_ok, document_text |-> <<>>, conversation_history |-> <<>>,
     entities |-> EmptyMap]

\* DocumentQA.set_context ("entities or {}": None and {} both give {})
set_context(qa, document_text, entities) ==
    [qa EXCEPT !.document_text = document_text, !.entities = entities,
               !.conversation_history = <<>>]

\* a truthy value of self.entities.get(key)
Has(entities, key) == key \in DOMAIN entities /\ entities[key] # <<>>

\* DocumentQA.get_suggested_questions
get_suggested_questions(qa) ==
    IF qa.document_text = <<>> THEN <<>>
    ELSE LET suggestions ==
                 (IF Has(qa.entities, "counterparty") THEN <<"Who are the counterparties?">> ELSE <<>>)
                 \o (IF Has(qa.entities, "notional") THEN <<"What is the notional amount?">> ELSE <<>>)
                 \o (IF Has(qa.entities, "maturity") THEN <<"What is the maturity date?">> ELSE <<>>)
                 \o (IF Has(qa.entities, "coupon") THEN <<"What is the coupon rate?">> ELSE <<>>)
                 \o (IF Has(qa.entities, "isin") THEN <<"What is the ISIN?">> ELSE <<>>)
             filled == IF suggestions # <<>> THEN suggestions
                       ELSE <<"What is this document about?", "Who are the parties involved?",
                              "What are the key terms?", "What are the important dates?",
                              "What are the financial amounts?">>
         IN SubSeq(filled, 1, Min({Len(filled), MaxSuggestions}))

\* DocumentQA.ask_question: the object after the call and the result; llm is
\* what the call of the client does with the messages built from the
\* object's text and entities and the question (it raises, content being
\* the text of the exception, or it answers with a content)
ask_question(qa, question, llm) ==
    IF ~qa.client
    THEN [qa |-> qa, result |-> [answer |-> <<"Q","&","A"," ","r","e","q","u","i","r","e","s"," ","O","p","e","n","A","I"," ","A","P","I"," ","k","e","y","."," ","P","l","e","a","s","e"," ","c","o","n","f","i","g","u","r","e"," ","O","P","E","N","A","I","_","A","P","I","_","K","E","Y"," ","i","n"," ",".","e","n","v"," ","f","i","l","e",".">>,
                                sources |-> <<>>, error |-> <<"O","p","e","n","A","I"," ","n","o","t"," ","c","o","n","f","i","g","u","r","e","d">>]]
    ELSE IF qa.document_text = <<>>
    THEN [qa |-> qa, result |-> [answer |-> <<"N","o"," ","d","o","c","u","m","e","n","t"," ","c","o","n","t","e","x","t"," ","a","v","a","i","l","a","b","l","e","."," ","P","l","e","a","s","e"," ","u","p","l","o","a","d"," ","a"," ","d","o","c","u","m","e","n","t"," ","f","i","r","s","t",".">>,
                                sources |-> <<>>, error |-> <<"N","o"," ","c","o","n","t","e","x","t">>]]
    ELSE LET context == IF Len(qa.document_text) > ContextLimit
                        THEN SubSeq(qa.document_text, 1, ContextLimit)
                        ELSE qa.document_text
         IN IF llm.raises
            THEN [qa |-> qa, result |-> [answer |-> <<"E","r","r","o","r"," ","p","r","o","c","e","s","s","i","n","g"," ","q","u","e","s","t","i","o","n",":"," ">> \o llm.content,
                                        sources |-> <<>>, error |-> llm.content]]
            ELSE LET answer == Strip(llm.content)
                     after == [qa EXCEPT !.conversation_history =
                                  Append(@, [question |-> question, answer |-> answer])]
                 IN [qa |-> after,
                     result |-> [answer |-> answer,
                                 sources |-> extract_relevant_sections(question, context),
                                 conversation_id |-> Len(after.conversation_history)]]

\* DocumentQA.ask_multiple: one ask_question after the other
RECURSIVE ask_multiple(_, _, _)
ask_multiple(qa, questions, llms) ==
    IF questions = <<>> THEN [qa |-> qa, results |-> <<>>]
    ELSE LET first == ask_question(qa, Head(questions), Head(llms))
             rest == ask_multiple(first.qa, Tail(questions), Tail(llms))
         IN [qa |-> rest.qa, results |-> <<first.result>> \o rest.results]

\* clear_history as it would be if it left the list as it is
clear_history_keeping(qa) == qa

\* DocumentQA.clear_history
clear_history(qa) == [qa EXCEPT !.conversation_history = <<>>]

\* DocumentQA.get_conversation_history: list.copy() gives a new list of the
\* dicts of the stored list, each item of the new list being the dict (not a
\* copy of it) stored at the same position; shares is that position
DocumentQA_get_conversation_history(qa) ==
    [n \in DOMAIN qa.conversation_history |->
        [shares |-> n, entry |-> qa.conversation_history[n]]]

\* qa_sessions[session_id] = qa
Put(sessions, session_id, qa) ==
    [k \in DOMAIN sessions \cup {session_id} |-> IF k = session_id THEN qa ELSE sessions[k]]

\* del qa_sessions[session_id]
Remove(sessions, session_id) == [k \in DOMAIN sessions \ {session_id} |-> sessions[k]]

NotFound == [status_code |-> 404, detail |-> "Session not found"]

\* create_qa_session as it would be if it rebuilt the dict around the new
\* session
create_qa_session_alone(sessions, session_id, document_text, entities, key) ==
    IF key = "not configured"
    THEN [sessions |-> sessions,
          response |-> [success |-> FALSE, error |-> "OpenAI API key not configured"]]
    ELSE IF key = "rejected"
    THEN [sessions |-> sessions,
          response |-> [success |-> FALSE, error |-> "Q&A initialization failed"]]
    ELSE IF key = "raises"
    THEN [sessions |-> sessions,
          response |-> [success |-> FALSE, error |-> "exception"]]
    ELSE LET qa == set_context(DocumentQA(TRUE), document_text, entities)
         IN [sessions |-> Put(EmptyMap, session_id, qa),
             response |-> [success |-> TRUE, session_id |-> session_id,
                           suggested_questions |-> get_suggested_questions(qa)]]

\* create_qa_session as it would be if it set the context of the object
\* already stored under the id, keeping its conversation
create_qa_session_keeping(sessions, session_id, document_text, entities, key) ==
    IF key = "not configured"
    THEN [sessions |-> sessions,
          response |-> [success |-> FALSE, error |-> "OpenAI API key not configured"]]
    ELSE IF key = "rejected"
    THEN [sessions |-> sessions,
          response |-> [success |-> FALSE, error |-> "Q&A initialization failed"]]
    ELSE IF key = "raises"
    THEN [sessions |-> sessions,
          response |-> [success |-> FALSE, error |-> "exception"]]
    ELSE LET qa == IF session_id \in DOMAIN sessions
                   THEN [sessions[session_id] EXCEPT !.document_text = document_text,
                                                     !.entities = entities]
                   ELSE set_context(DocumentQA(TRUE), document_text, entities)
         IN [sessions |-> Put(sessions, session_id, qa),
             response |-> [success |-> TRUE, session_id |-> session_id,
                           suggested_questions |-> get_suggested_questions(qa)]]

\* create_qa_session as it would be if it stored the object before it
\* looked at its client
create_qa_session_storing_first(sessions, session_id, document_text, entities, key) ==
    IF key = "not configured"
    THEN [sessions |-> sessions,
          response |-> [success |-> FALSE, error |-> "OpenAI API key not configured"]]
    ELSE IF key = "rejected"
    THEN [sessions |-> Put(sessions, session_id,
                           set_context(DocumentQA(FALSE), document_text, entities)),
          response |-> [success |-> FALSE, error |-> "Q&A initialization failed"]]
    ELSE IF key = "raises"
    THEN [sessions |-> sessions,
          response |-> [success |-> FALSE, error |-> "exception"]]
    ELSE LET qa == set_context(DocumentQA(TRUE), document_text, entities)
         IN [sessions |-> Put(sessions, session_id, qa),
             response |-> [success |-> TRUE, session_id |-> session_id,
                           suggested_questions |-> get_suggested_questions(qa)]]

\* create_qa_session; key is the state of OPENAI_API_KEY: not configured,
\* rejected by the construction of the client, or valid; or the
\* construction of DocumentQA raises (load_dotenv on an unreadable .env),
\* which the handler catches before it has stored anything
create_qa_session(sessions, session_id, document_text, entities, key) ==
    IF key = "not configured"
    THEN [sessions |-> sessions,
          response |-> [success |-> FALSE, error |-> "OpenAI API key not configured"]]
    ELSE IF key = "rejected"
    THEN [sessions |-> sessions,
          response |-> [success |-> FALSE, error |-> "Q&A initialization failed"]]
    ELSE IF key = "raises"
    THEN [sessions |-> sessions,
          response |-> [success |-> FALSE, error |-> "exception"]]
    ELSE LET qa == set_context(DocumentQA(TRUE), document_text, entities)
         IN [sessions |-> Put(sessions, session_id, qa),
             response |-> [success |-> TRUE, session_id |-> session_id,
                           suggested_questions |-> get_suggested_questions(qa)]]

\* the handler ask_question of /ask
ask(sessions, session_id, question, llm) ==
    IF session_id \notin DOMAIN sessions
    THEN [sessions |-> sessions, response |-> NotFound]
    ELSE LET asked == ask_question(sessions[session_id], question, llm)
         IN [sessions |-> Put(sessions, session_id, asked.qa), response |-> asked.result]

\* ask_multiple_questions
ask_multiple_questions(sessions, session_id, questions, llms) ==
    IF session_id \notin DOMAIN sessions
    THEN [sessions |-> sessions, response |-> NotFound]
    ELSE LET asked == ask_multiple(sessions[session_id], questions, llms)
         IN [sessions |-> Put(sessions, session_id, asked.qa),
             response |-> [success |-> TRUE, answers |-> asked.results]]

\* get_conversation_history
get_conversation_history(sessions, session_id) ==
    IF session_id \notin DOMAIN sessions
    THEN [sessions |-> sessions, response |-> NotFound]
    ELSE [sessions |-> sessions,
          response |-> [success |-> TRUE, session_id |-> session_id,
                        history |-> sessions[session_id].conversation_history]]

\* the handler get_suggested_questions of /suggestions
suggestions_of(sessions, session_id) ==
    IF session_id \notin DOMAIN sessions
    THEN [sessions |-> sessions, response |-> NotFound]
    ELSE [sessions |-> sessions,
          response |-> [success |-> TRUE,
                        suggestions |-> get_suggested_questions(sessions[session_id])]]

\* delete_session
delete_session(sessions, session_id) ==
    IF session_id \in DOMAIN sessions
    THEN [sessions |-> Remove(sessions, session_id),
          response |-> [success |-> TRUE, message |-> "Session deleted"]]
    ELSE [sessions |-> sessions, response |-> NotFound]

\* ---- requests on two session ids ----

MaxHistory == 2

QaTexts == {<<>>, <<"G","S"," ","p","a","y","s"," ","t","h","e"," ","c","o","u","p","o","n"," ","q","u","a","r","t","e","r","l","y","."," ","T","h","e"," ","I","S","I","N"," ","i","s"," ","U","S","0","3","7","8","3","3","1","0","0","5",".">>}

QaEntities == {EmptyMap, [isin |-> <<S_US0378331005>>]}

Questions == {<<"w","h","a","t"," ","i","s"," ","t","h","e"," ","i","s","i","n">>, <<"W","h","o"," ","p","a","y","s"," ","t","h","e"," ","c","o","u","p","o","n","?">>}

QuestionLists == {<<>>, <<<<"W","h","o"," ","p","a","y","s"," ","t","h","e"," ","c","o","u","p","o","n","?">>, <<"w","h","a","t"," ","i","s"," ","t","h","e"," ","i","s","i","n">>>>}

\* what the call of the client may do
Llms == {[raises |-> FALSE, content |-> <<" ","U","S","0","3","7","8","3","3","1","0","0","5"," ">>],
         [raises |-> TRUE, content |-> <<"t","i","m","e","o","u","t">>]}

Keys == {"valid", "not configured", "rejected", "raises"}

QaInit ==
    /\ qa_sessions = EmptyMap
    /\ solo_sessions = [s \in SessionIds |-> EmptyMap]
    /\ qa_request = [op |-> "none", session_id |-> "none"]
    /\ qa_response = [success |-> FALSE]
    /\ solo_response = [success |-> FALSE]
    /\ qa_payload = EmptyMap
    /\ qa_dropped = <<>>

\* the entry of a session id in a dict: the DocumentQA object, or none
EntryOf(sessions, session_id) ==
    IF session_id \in DOMAIN sessions THEN <<sessions[session_id]>> ELSE <<>>

\* a successful response of the handlers that report success
Succeeded(response) == "success" \in DOMAIN response /\ response.success

\* a request is served from qa_sessions, and from the dict of its session id
\* alone; qa_payload is what the request carries besides its session id, and
\* qa_dropped the DocumentQA object the request took out of the dict, by
\* assigning another one to its key or by del
Serve(op, session_id, payload, real, solo) ==
    /\ qa_payload' = payload
    /\ qa_dropped' = IF /\ op \in {"create-session", "delete"}
                        /\ session_id \in DOMAIN qa_sessions
                        /\ EntryOf(real.sessions, session_id) # <<qa_sessions[session_id]>>
                     THEN <<qa_sessions[session_id]>> ELSE <<>>
    /\ qa_sessions' = real.sessions
    /\ qa_response' = real.response
    /\ solo_sessions' = [solo_sessions EXCEPT ![session_id] = solo.sessions]
    /\ solo_response' = solo.response
    /\ qa_request' = [op |-> op, session_id |-> session_id]
    /\ UNCHANGED exceptQa

\* the conversation of the session has room for n more answers
Room(session_id, n) ==
    session_id \in DOMAIN qa_sessions =>
        Len(qa_sessions[session_id].conversation_history) + n <= MaxHistory

CreateSession ==
    \E session_id \in SessionIds, key \in Keys :
      \E document_text \in (IF key = "valid" THEN QaTexts ELSE {<<>>}),
         entities \in (IF key = "valid" THEN QaEntities ELSE {EmptyMap}) :
        Serve("create-session", session_id,
              [document_text |-> document_text, entities |-> entities],
              create_qa_session(qa_sessions, session_id, document_text, entities, key),
              create_qa_session(solo_sessions[session_id], session_id, document_text,
                                entities, key))

Ask ==
    \E session_id \in SessionIds, question \in Questions, llm \in Llms :
        /\ Room(session_id, 1)
        /\ Serve("ask", session_id, [question |-> question],
                 ask(qa_sessions, session_id, question, llm),
                 ask(solo_sessions[session_id], session_id, question, llm))

AskMultiple ==
    \E session_id \in SessionIds, questions \in QuestionLists :
        \E llms \in [DOMAIN questions -> Llms] :
            /\ Room(session_id, Len(questions))
            /\ Serve("ask-multiple", session_id, [questions |-> questions],
                     ask_multiple_questions(qa_sessions, session_id, questions, llms),
                     ask_multiple_questions(solo_sessions[session_id], session_id,
                                            questions, llms))

History ==
    \E session_id \in SessionIds :
        Serve("history", session_id, EmptyMap,
              get_conversation_history(qa_sessions, session_id),
              get_conversation_history(solo_sessions[session_id], session_id))

Suggestions ==
    \E session_id \in SessionIds :
        Serve("suggestions", session_id, EmptyMap,
              suggestions_of(qa_sessions, session_id),
              suggestions_of(solo_sessions[session_id], session_id))

DeleteSession ==
    \E session_id \in SessionIds :
        Serve("delete", session_id, EmptyMap,
              delete_session(qa_sessions, session_id),
              delete_session(solo_sessions[session_id], session_id))

\* C19: a request on one session id leaves every other session id as it
\* was (present or not, with its text, entities and conversation), and every
\* request is answered as it would be had no request on another session id
\* been served
C19_NoCrossSessionInterference ==
    /\ [][\A other \in SessionIds \ {qa_request'.session_id} :
             EntryOf(qa_sessions', other) = EntryOf(qa_sessions, other)]_vars
    /\ [](/\ \A s \in SessionIds :
                EntryOf(qa_sessions, s) = EntryOf(solo_sessions[s], s)
          /\ qa_response = solo_response)

\* A holds a conversation of two answers on other entities, and B has just
\* been asked its first question
C19_Witness ==
    /\ qa_request = [op |-> "ask", session_id |-> "B"]
    /\ DOMAIN qa_sessions = {"A", "B"}
    /\ Len(qa_sessions["A"].conversation_history) = 2
    /\ qa_sessions["A"].entities # qa_sessions["B"].entities
    /\ Len(qa_sessions["B"].conversation_history) = 1
    /\ qa_response.conversation_id = 1
    /\ qa_response.sources # <<>>

IsPrefix(a, b) == Len(a) <= Len(b) /\ SubSeq(b, 1, Len(a)) = a

\* the request just served was a successful create-session
Created == qa_request.op = "create-session" /\ Succeeded(qa_response)

\* what a step does to the session of the id it is about (the primed
\* request is the one the step serves)
ReplacedAsAWhole ==
    LET sid == qa_request'.session_id
    IN Created' =>
          /\ sid \in DOMAIN qa_sessions'
          /\ qa_sessions'[sid].document_text = qa_payload'.document_text
          /\ qa_sessions'[sid].entities = qa_payload'.entities
          /\ qa_sessions'[sid].conversation_history = <<>>
          /\ qa_response'.suggested_questions =
                 get_suggested_questions(set_context(DocumentQA(TRUE),
                                                     qa_payload'.document_text,
                                                     qa_payload'.entities))

\* until the next successful create-session a stored session keeps its text
\* and its entities, and its conversation only grows, by the questions asked
KeptUntilCreated ==
    ~Created' =>
        \A s \in DOMAIN qa_sessions \cap DOMAIN qa_sessions' :
            /\ qa_sessions'[s].document_text = qa_sessions[s].document_text
            /\ qa_sessions'[s].entities = qa_sessions[s].entities
            /\ IsPrefix(qa_sessions[s].conversation_history,
                        qa_sessions'[s].conversation_history)
            /\ \A n \in (Len(qa_sessions[s].conversation_history) + 1)
                          ..Len(qa_sessions'[s].conversation_history) :
                  /\ s = qa_request'.session_id
                  /\ \/ /\ qa_request'.op = "ask"
                        /\ qa_sessions'[s].conversation_history[n].question
                               = qa_payload'.question
                     \/ /\ qa_request'.op = "ask-multiple"
                        /\ qa_sessions'[s].conversation_history[n].question
                               \in Range(qa_payload'.questions)

\* ask, history and suggestions answer from the stored session
AnsweredFromStored ==
    LET sid == qa_request'.session_id
        op == qa_request'.op
    IN sid \in DOMAIN qa_sessions =>
          /\ op = "history" =>
                qa_response'.history = qa_sessions[sid].conversation_history
          /\ op = "suggestions" =>
                qa_response'.suggestions = get_suggested_questions(qa_sessions[sid])
          /\ (op = "ask" /\ "conversation_id" \in DOMAIN qa_response') =>
                /\ qa_response'.conversation_id
                       = Len(qa_sessions[sid].conversation_history) + 1
                /\ qa_response'.sources
                       = extract_relevant_sections(qa_payload'.question,
                                                   qa_sessions[sid].document_text)

\* a successful delete removes the id, an id that is not stored answers 404
\* to everything but create-session, and only a successful create-session
\* stores it again
GoneUntilCreated ==
    LET sid == qa_request'.session_id
        op == qa_request'.op
    IN /\ (op = "delete" /\ Succeeded(qa_response')) =>
              sid \in DOMAIN qa_sessions /\ sid \notin DOMAIN qa_sessions'
       /\ (sid \notin DOMAIN qa_sessions /\ op # "create-session") =>
              qa_response' = NotFound
       /\ \A s \in SessionIds \ DOMAIN qa_sessions :
              s \in DOMAIN qa_sessions' => (Created' /\ sid = s)

\* C26: a successful create-session stores a new session with the text and
\* entities of the request and an empty conversation under its id, also
\* when the id was stored already; until the next one, ask, history and
\* suggestions on the id answer from that text, those entities and the
\* conversation held since; after a successful delete every request on the
\* id answers 404 until the next successful create-session on it.
C26_LastWriterWins ==
    [][ReplacedAsAWhole /\ KeptUntilCreated /\ AnsweredFromStored /\ GoneUntilCreated]_vars

\* C26 witness: a create-session has just replaced a session that held
\* another text, other entities and a conversation of two answers.
C26_Witness ==
    /\ Created
    /\ qa_dropped # <<>>
    /\ Len(qa_dropped[1].conversation_history) = 2
    /\ qa_dropped[1].document_text # qa_payload.document_text
    /\ qa_dropped[1].entities # qa_payload.entities
    /\ qa_sessions[qa_request.session_id].conversation_history = <<>>
    /\ qa_sessions[qa_request.session_id].document_text = qa_payload.document_text

\* the request just served ended in an error: 404, or success = false
Failed(request, response) ==
    \/ response = NotFound
    \/ request.op = "create-session" /\ ~Succeeded(response)

\* C29: a request that ends in an error (404 for an unknown session id, or
\* a create-session answering success = false) leaves the session ids and
\* every stored session, its text, entities and conversation, as they were.
C29_FailedRequestChangesNothing ==
    [][Failed(qa_request', qa_response') =>
           /\ qa_sessions' = qa_sessions
           /\ qa_dropped' = <<>>]_vars

\* C29 witness: a create-session on a stored id has just failed, the
\* session under that id still holding its conversation.
C29_Witness ==
    /\ qa_request.op = "create-session" /\ ~Succeeded(qa_response)
    /\ qa_request.session_id \in DOMAIN qa_sessions
    /\ Len(qa_sessions[qa_request.session_id].conversation_history) = 2
    /\ \E other \in SessionIds : other \notin DOMAIN qa_sessions

\* ---- one DocumentQA object and the list its caller got from
\* get_conversation_history ----

\* the answer and the dict a caller writes into the list it got
OwnAnswer == <<"e","d","i","t","e","d">>

OwnEntry == [question |-> <<"o","w","n">>, answer |-> OwnAnswer]

\* a result of ask_question without the key 'error'
Answered(res) == "error" \notin DOMAIN res

\* how many of the results are answers
AnsweredCount(results) == Len(SelectSeq(results, Answered))

ConvInit ==
    /\ \E client_ok \in BOOLEAN : conv_qa = DocumentQA(client_ok)
    /\ conv_asked = 0
    /\ conv_copy = <<>>
    /\ conv_call = [op |-> "DocumentQA"]
    /\ conv_results = <<>>

\* the stored list is replaced by a new empty one: the dicts of the old one
\* are no longer in it
Unshared(copy) == [n \in DOMAIN copy |-> [copy[n] EXCEPT !.shares = 0]]

SetContext ==
    \E document_text \in QaTexts, entities \in QaEntities :
        /\ conv_qa' = set_context(conv_qa, document_text, entities)
        /\ conv_asked' = 0
        /\ conv_copy' = Unshared(conv_copy)
        /\ conv_call' = [op |-> "set_context"]
        /\ conv_results' = <<>>
        /\ UNCHANGED exceptConv

AskQuestion ==
    \E question \in Questions, llm \in Llms :
        LET call == ask_question(conv_qa, question, llm)
        IN /\ Len(conv_qa.conversation_history) < MaxHistory
           /\ conv_qa' = call.qa
           /\ conv_asked' = conv_asked + AnsweredCount(<<call.result>>)
           /\ conv_results' = <<call.result>>
           /\ conv_call' = [op |-> "ask_question", question |-> question, llm |-> llm]
           /\ UNCHANGED conv_copy
           /\ UNCHANGED exceptConv

AskSeveral ==
    \E questions \in QuestionLists :
      \E llms \in [DOMAIN questions -> Llms] :
        LET call == ask_multiple(conv_qa, questions, llms)
        IN /\ Len(conv_qa.conversation_history) + Len(questions) <= MaxHistory
           /\ conv_qa' = call.qa
           /\ conv_asked' = conv_asked + AnsweredCount(call.results)
           /\ conv_results' = call.results
           /\ conv_call' = [op |-> "ask_multiple", questions |-> questions]
           /\ UNCHANGED conv_copy
           /\ UNCHANGED exceptConv

ClearHistory ==
    /\ conv_qa' = clear_history(conv_qa)
    /\ conv_asked' = 0
    /\ conv_copy' = Unshared(conv_copy)
    /\ conv_call' = [op |-> "clear_history"]
    /\ conv_results' = <<>>
    /\ UNCHANGED exceptConv

GetHistory ==
    /\ conv_copy' = DocumentQA_get_conversation_history(conv_qa)
    /\ conv_call' = [op |-> "get_conversation_history"]
    /\ conv_results' = <<>>
    /\ UNCHANGED <<conv_qa, conv_asked>>
    /\ UNCHANGED exceptConv

\* the caller changes the list it got: history.append(own),
\* history.pop(), history[i] = own
ChangeCopy ==
    /\ \/ /\ Len(conv_copy) < MaxHistory
          /\ conv_copy' = Append(conv_copy, [shares |-> 0, entry |-> OwnEntry])
       \/ /\ conv_copy # <<>>
          /\ conv_copy' = SubSeq(conv_copy, 1, Len(conv_copy) - 1)
       \/ \E i \in DOMAIN conv_copy :
             /\ conv_copy[i] # [shares |-> 0, entry |-> OwnEntry]
             /\ conv_copy' = [conv_copy EXCEPT ![i] = [shares |-> 0, entry |-> OwnEntry]]
    /\ conv_call' = [op |-> "change of the list"]
    /\ conv_results' = <<>>
    /\ UNCHANGED <<conv_qa, conv_asked>>
    /\ UNCHANGED exceptConv

\* the caller changes a dict of the list it got: history[i]['answer'] = own.
\* The dict is the one the stored list holds at position shares, if any
ChangeEntry ==
    \E i \in DOMAIN conv_copy :
        LET k == conv_copy[i].shares
        IN /\ conv_copy[i].entry.answer # OwnAnswer
           /\ conv_copy' = [conv_copy EXCEPT ![i].entry.answer = OwnAnswer]
           /\ conv_qa' = IF k = 0 THEN conv_qa
                         ELSE [conv_qa EXCEPT !.conversation_history[k].answer = OwnAnswer]
           /\ conv_call' = [op |-> "change of an entry", item |-> i]
           /\ conv_results' = <<>>
           /\ UNCHANGED conv_asked
           /\ UNCHANGED exceptConv

\* the history has as many entries as ask_question answered since the last
\* set_context or clear_history
LengthIsAsked == Len(conv_qa.conversation_history) = conv_asked

\* the entries the answered questions of a call leave, in question order
EntriesOf(questions, results) ==
    LET answered == SelectSeq([n \in DOMAIN questions |->
                                  [question |-> questions[n], result |-> results[n]]],
                              LAMBDA pair : Answered(pair.result))
    IN [n \in DOMAIN answered |->
           [question |-> answered[n].question, answer |-> answered[n].result.answer]]

\* the conversation_id of the n-th answer of a call is the length the
\* history had before the call plus n
NumberedFrom(results, length) ==
    LET answered == SelectSeq(results, Answered)
    IN \A n \in DOMAIN answered : answered[n].conversation_id = length + n

\* what a step of ask_question does: it fails exactly without client,
\* without document text or when the call of the LLM raises, and then keeps
\* the history; else it appends one entry and returns the new length
AskStep ==
    conv_call'.op = "ask_question" =>
        LET res == conv_results'[1]
            failing == \/ ~conv_qa.client
                       \/ conv_qa.document_text = <<>>
                       \/ conv_call'.llm.raises
        IN /\ Len(conv_results') = 1
           /\ Answered(res) <=> ~failing
           /\ ~Answered(res) =>
                 conv_qa'.conversation_history = conv_qa.conversation_history
           /\ Answered(res) =>
                 /\ conv_qa'.conversation_history =
                        Append(conv_qa.conversation_history,
                               [question |-> conv_call'.question, answer |-> res.answer])
                 /\ res.conversation_id = Len(conv_qa'.conversation_history)

\* what a step of ask_multiple does: one result per question, and the
\* entries of the answered ones appended in question order
AskMultipleStep ==
    conv_call'.op = "ask_multiple" =>
        /\ Len(conv_results') = Len(conv_call'.questions)
        /\ conv_qa'.conversation_history =
               conv_qa.conversation_history
                   \o EntriesOf(conv_call'.questions, conv_results')
        /\ NumberedFrom(conv_results', Len(conv_qa.conversation_history))

\* set_context and clear_history empty the history
EmptyingStep ==
    conv_call'.op \in {"set_context", "clear_history"} =>
        conv_qa'.conversation_history = <<>>

\* get_conversation_history returns the entries of the history, which it
\* leaves as it is
CopyStep ==
    conv_call'.op = "get_conversation_history" =>
        /\ conv_qa' = conv_qa
        /\ [n \in DOMAIN conv_copy' |-> conv_copy'[n].entry] = conv_qa.conversation_history

\* a change of the returned list (an item added, removed or replaced)
\* leaves the stored history as it is
ListChangeStep ==
    conv_call'.op = "change of the list" => conv_qa' = conv_qa

\* a change of any kind made to what was returned leaves the stored history
\* as it is
AnyChangeStep ==
    conv_call'.op \in {"change of the list", "change of an entry"} => conv_qa' = conv_qa

\* a change made inside an entry of the returned list is a change of the
\* stored entry at the same position, as long as the history has not been
\* emptied since the list was returned, and of nothing else
EntryChangeStep ==
    conv_call'.op = "change of an entry" =>
        LET k == conv_copy[conv_call'.item].shares
        IN /\ Len(conv_qa'.conversation_history) = Len(conv_qa.conversation_history)
           /\ \A n \in DOMAIN conv_qa.conversation_history :
                 conv_qa'.conversation_history[n] =
                     IF n = k THEN conv_copy'[conv_call'.item].entry
                     ELSE conv_qa.conversation_history[n]
           /\ k # 0 => conv_qa'.conversation_history # conv_qa.conversation_history

\* C30 as stated: the history of a DocumentQA is as long as the number of
\* answered ask_question calls since the last set_context or clear_history;
\* an answered ask appends one {question, answer} entry at the end and
\* returns the new length as conversation_id; a failed ask (no client, no
\* document text, or the LLM call raises) leaves the history unchanged;
\* ask_multiple appends in question order; and no change made to what
\* get_conversation_history returned changes the stored history.
C30_HistoryCopyIndependent ==
    /\ []LengthIsAsked
    /\ [][AskStep /\ AskMultipleStep /\ EmptyingStep /\ CopyStep /\ AnyChangeStep]_vars

\* C30 amended: as above, but get_conversation_history returns a new list of
\* the stored entries themselves: adding, removing or replacing items of
\* that list leaves the stored history unchanged, while a change made
\* inside one of its entries changes the stored entry at the same position
\* (until the history is emptied), and nothing else of the history.
C30_ConversationHistory ==
    /\ []LengthIsAsked
    /\ [][/\ AskStep /\ AskMultipleStep /\ EmptyingStep /\ CopyStep
          /\ ListChangeStep /\ EntryChangeStep]_vars

\* C30 witness: two questions were answered; the caller got the history,
\* replaced the second item of its list by a dict of its own and then
\* changed the answer inside the first entry: the stored history still has
\* its two entries, the second as it was, the first with the changed answer.
C30_Witness ==
    /\ conv_call.op = "change of an entry" /\ conv_call.item = 1
    /\ conv_asked = 2
    /\ Len(conv_qa.conversation_history) = 2
    /\ Len(conv_copy) = 2
    /\ conv_copy[1].shares = 1
    /\ conv_copy[2] = [shares |-> 0, entry |-> OwnEntry]
    /\ conv_qa.conversation_history[1].answer = OwnAnswer
    /\ conv_qa.conversation_history[2].answer # OwnAnswer

MergeIdle == sources = None /\ entity_dicts = None /\ merged = None /\ engine = None

\* the merge engine called on maps built value by value
Init == MergeInit /\ IsinIdle /\ ExtractIdle /\ ClassifyIdle /\ InstanceIdle /\ CallIdle /\ EntryIdle /\ QaIdle /\ ConvIdle

Next == MergeNext

Spec == Init /\ [][Next]_vars

\* _validate_isin called on the candidates
InitIsin == IsinInit /\ MergeIdle /\ ExtractIdle /\ ClassifyIdle /\ InstanceIdle /\ CallIdle /\ EntryIdle /\ QaIdle /\ ConvIdle

NextIsin == ValidateIsin

SpecIsin == InitIsin /\ [][NextIsin]_vars

\* one extraction on each format path
InitExtract == (DocxInit \/ TxtInit \/ PdfInit) /\ MergeIdle /\ IsinIdle /\ ClassifyIdle /\ InstanceIdle /\ CallIdle /\ EntryIdle /\ QaIdle /\ ConvIdle

NextExtract ==
    \/ ParseDocx
    \/ ExtractChat
    \/ ExtractChatRaising
    \/ ExtractPdfNoText
    \/ ExtractPdfLlm
    \/ ExtractPdfPatterns

SpecExtract == InitExtract /\ [][NextExtract]_vars

\* DocumentClassifier.classify called on a text and an entity map
InitClassify == ClassifyInit /\ MergeIdle /\ IsinIdle /\ ExtractIdle /\ InstanceIdle /\ CallIdle /\ EntryIdle /\ QaIdle /\ ConvIdle

NextClassify == Classify

SpecClassify == InitClassify /\ [][NextClassify]_vars

\* classify called again and again on one instance
InitReclassify == InstanceInit /\ MergeIdle /\ IsinIdle /\ ExtractIdle /\ ClassifyIdle /\ CallIdle /\ EntryIdle /\ QaIdle /\ ConvIdle

NextReclassify == ClassifyAgain

SpecReclassify == InitReclassify /\ [][NextReclassify]_vars

\* EntityFormatter.format called on a raw result
InitFormat == FormatInit /\ MergeIdle /\ IsinIdle /\ ExtractIdle /\ ClassifyIdle /\ InstanceIdle /\ EntryIdle /\ QaIdle /\ ConvIdle

NextFormat == Format

SpecFormat == InitFormat /\ [][NextFormat]_vars

\* calls of PdfLLM._parse_llm_response
InitParse == ParseInit /\ MergeIdle /\ IsinIdle /\ ExtractIdle /\ ClassifyIdle /\ InstanceIdle /\ EntryIdle /\ QaIdle /\ ConvIdle

NextParse == ParseResponse

SpecParse == InitParse /\ [][NextParse]_vars

\* calls of SpacyNERPipeline._get_confidence
InitConfidence ==
    ConfidenceInit /\ MergeIdle /\ IsinIdle /\ ExtractIdle /\ ClassifyIdle /\ InstanceIdle
        /\ EntryIdle /\ QaIdle /\ ConvIdle

NextConfidence == GetConfidence

SpecConfidence == InitConfidence /\ [][NextConfidence]_vars

\* requests to the Q&A endpoints
InitQa ==
    QaInit /\ MergeIdle /\ IsinIdle /\ ExtractIdle /\ ClassifyIdle /\ InstanceIdle /\ CallIdle
        /\ EntryIdle /\ ConvIdle

NextQa ==
    \/ CreateSession
    \/ Ask
    \/ AskMultiple
    \/ History
    \/ Suggestions
    \/ DeleteSession

SpecQa == InitQa /\ [][NextQa]_vars

\* the entry paths with the extractors they call
InitEntry == EntryInit /\ MergeIdle /\ IsinIdle /\ ClassifyIdle /\ InstanceIdle /\ CallIdle /\ QaIdle /\ ConvIdle

NextEntry ==
    \/ EndpointDispatch
    \/ EndpointReport
    \/ RouterDispatch
    \/ RouterReturn
    \/ ParseDocx
    \/ ExtractChat
    \/ ExtractChatRaising
    \/ ExtractPdfNoText
    \/ ExtractPdfLlm
    \/ ExtractPdfPatterns

SpecEntry == InitEntry /\ [][NextEntry]_vars

\* calls on one DocumentQA object and changes of the list it returned
InitConversation ==
    ConvInit /\ MergeIdle /\ IsinIdle /\ ExtractIdle /\ ClassifyIdle /\ InstanceIdle /\ CallIdle
        /\ EntryIdle /\ QaIdle

NextConversation ==
    \/ SetContext
    \/ AskQuestion
    \/ AskSeveral
    \/ ClearHistory
    \/ GetHistory
    \/ ChangeCopy
    \/ ChangeEntry

SpecConversation == InitConversation /\ [][NextConversation]_vars

====
